---- MODULE Spec2Model ----
(***************************************************************************)
(* Model of the alphav tool-dispatch layer (src/src/tool_use.rs) and of    *)
(* the endpoint request builders it drives (src/src/request/...).          *)
(*                                                                         *)
(* A call of call_tool runs synchronously up to the transport's get (its   *)
(* only await), is resumed by the transport's answer and then runs to its  *)
(* return.  The two halves are the actions CallTool and TransportRespond.  *)
(***************************************************************************)
EXTENDS Integers, Sequences, FiniteSets, TLC

VARIABLES client, STATIC_INSTANCE, pc, request, sent, response, result

vars == <<client, STATIC_INSTANCE, pc, request, sent, response, result>>

(***************************************************************************)
(* serde_json::Value.  Every value is a record [t, v]; values of one tag   *)
(* carry the same kind of v.  An object is a function from its keys to     *)
(* values, an array a sequence.  None is the absent Option.                *)
(***************************************************************************)
JNull == [t |-> "null", v |-> ""]
JStr(s) == [t |-> "string", v |-> s]
JNum(n) == [t |-> "number", v |-> n]
JObj(f) == [t |-> "object", v |-> f]
JArr(q) == [t |-> "array", v |-> q]
None == [t |-> "none", v |-> ""]

IsSome(o) == o.t # "none"

\* Value::get(&str): the member of an object, None on any other value.
Get(val, key) ==
    IF val.t = "object" /\ key \in DOMAIN val.v THEN val.v[key] ELSE None

\* Option<&Value>::and_then(|v| v.as_str())
AsStr(o) == IF o.t = "string" THEN o ELSE None

\* Option<&Value>::and_then(|v| v.as_object())
AsObject(o) == IF o.t = "object" THEN o ELSE None

\* Option<&Value>::and_then(|v| v.as_array())
AsArray(o) == IF o.t = "array" THEN o ELSE None

\* Option<Value>::unwrap_or(json!(null))
UnwrapOrNull(o) == IF IsSome(o) THEN o ELSE JNull

Ok(x) == [tag |-> "Ok", val |-> x]
Err(e) == [tag |-> "Err", err |-> e]
Pending == [tag |-> "Pending"]

\* Error::Custom(String)
Custom(msg) == [kind |-> "Custom", message |-> msg]

(***************************************************************************)
(* str::cmp.  The strings that are ever compared are the date strings of   *)
(* the model; Chars gives their characters (digits), and str::cmp is the   *)
(* lexicographic order of the character sequences, a proper prefix being   *)
(* the smaller.                                                            *)
(***************************************************************************)
DateStrings == {"", "1", "10", "2"}

Chars(s) ==
    CASE s = "" -> <<>>
      [] s = "1" -> <<1>>
      [] s = "10" -> <<1, 0>>
      [] s = "2" -> <<2>>

RECURSIVE SeqCmp(_, _)
SeqCmp(a, b) ==
    IF a = <<>> /\ b = <<>> THEN 0
    ELSE IF a = <<>> THEN -1
    ELSE IF b = <<>> THEN 1
    ELSE IF Head(a) < Head(b) THEN -1
    ELSE IF Head(a) > Head(b) THEN 1
    ELSE SeqCmp(Tail(a), Tail(b))

StrCmp(a, b) == SeqCmp(Chars(a), Chars(b))

(***************************************************************************)
(* Iteration over a serde_json::Map: ascending key order (a BTreeMap).     *)
(***************************************************************************)
RECURSIVE KeysAscending(_)
KeysAscending(keys) ==
    IF keys = {} THEN <<>>
    ELSE LET least == CHOOSE k \in keys : \A o \in keys : StrCmp(k, o) <= 0
         IN <<least>> \o KeysAscending(keys \ {least})

\* a.get(col).and_then(|v| v.as_str()).unwrap_or("")
SortKey(row, col) ==
    LET s == AsStr(Get(row, col)) IN IF IsSome(s) THEN s.v ELSE ""

\* The comparator with its operands exchanged: date_a.cmp(date_b).
CompareRowsAsc(a, b, col) == StrCmp(SortKey(a, col), SortKey(b, col))

\* The comparator of every sort_by of tool_use.rs: date_b.cmp(date_a).
CompareRows(a, b, col) == StrCmp(SortKey(b, col), SortKey(a, col))

\* Vec::sort_by is a stable sort: x is put after every element that does not
\* compare Greater than it.
RECURSIVE InsertSorted(_, _, _)
\* An unstable insertion: x is put before the elements it compares Equal to.
InsertSortedUnstable(sorted, x, col) ==
    IF sorted = <<>> THEN <<x>>
    ELSE IF CompareRows(Head(sorted), x, col) < 0
         THEN <<Head(sorted)>> \o InsertSorted(Tail(sorted), x, col)
         ELSE <<x>> \o sorted

InsertSorted(sorted, x, col) ==
    IF sorted = <<>> THEN <<x>>
    ELSE IF CompareRows(Head(sorted), x, col) <= 0
         THEN <<Head(sorted)>> \o InsertSorted(Tail(sorted), x, col)
         ELSE <<x>> \o sorted

\* A transformer that forgets its sort_by.
SortByNone(rows, col) == rows

RECURSIVE SortBy(_, _)
SortBy(rows, col) ==
    IF rows = <<>> THEN <<>>
    ELSE InsertSorted(SortBy(SubSeq(rows, 1, Len(rows) - 1), col), rows[Len(rows)], col)

(***************************************************************************)
(* The time-series transformers.                                           *)
(***************************************************************************)
ColumnDef(name, alias, dtype) == [name |-> name, alias |-> alias, dtype |-> dtype]

\* The schema every time-series transformer declares, after its date column.
OhlcvColumns ==
    << ColumnDef("open", "Open", "number"),
       ColumnDef("high", "High", "number"),
       ColumnDef("low", "Low", "number"),
       ColumnDef("close", "Close", "number"),
       ColumnDef("volume", "Volume", "number") >>

\* The row built without its volume.
TimeSeriesRowNoVolume(dateCol, date, values_obj) ==
    JObj([k \in {dateCol, "open", "high", "low", "close"} |->
        CASE k = dateCol -> JStr(date)
          [] k = "open" -> UnwrapOrNull(Get(values_obj, "1. open"))
          [] k = "high" -> UnwrapOrNull(Get(values_obj, "2. high"))
          [] k = "low" -> UnwrapOrNull(Get(values_obj, "3. low"))
          [] k = "close" -> UnwrapOrNull(Get(values_obj, "4. close"))])

\* The row a time-series transformer builds of one entry of the block.
TimeSeriesRow(dateCol, date, values_obj) ==
    JObj([k \in {dateCol, "open", "high", "low", "close", "volume"} |->
        CASE k = dateCol -> JStr(date)
          [] k = "open" -> UnwrapOrNull(Get(values_obj, "1. open"))
          [] k = "high" -> UnwrapOrNull(Get(values_obj, "2. high"))
          [] k = "low" -> UnwrapOrNull(Get(values_obj, "3. low"))
          [] k = "close" -> UnwrapOrNull(Get(values_obj, "4. close"))
          [] k = "volume" -> UnwrapOrNull(Get(values_obj, "5. volume"))])

\* for (date, values) in time_series_obj { if let Some(values_obj) = values.as_object() {..push(row)} }
RECURSIVE TimeSeriesRowsOf(_, _, _)
TimeSeriesRowsOf(dateCol, time_series_obj, keys) ==
    IF keys = <<>> THEN <<>>
    ELSE LET values == time_series_obj.v[Head(keys)]
             rest == TimeSeriesRowsOf(dateCol, time_series_obj, Tail(keys))
         IN IF IsSome(AsObject(values))
            THEN <<TimeSeriesRow(dateCol, Head(keys), values)>> \o rest
            ELSE rest

TimeSeriesRows(dateCol, time_series_obj) ==
    TimeSeriesRowsOf(dateCol, time_series_obj, KeysAscending(DOMAIN time_series_obj.v))

\* The lookup of the block with the as_object test left out.
TimeSeriesBlockAnyValue(resp, time_series_key) ==
    LET o == Get(resp, time_series_key)
    IN IF IsSome(o)
       THEN Ok(IF o.t = "object" THEN o ELSE JObj(<<>>))
       ELSE Err(Custom("No '" \o time_series_key \o "' data found in response"))

\* response.get(key).and_then(|v| v.as_object()).ok_or_else(|| Error::Custom(..))
TimeSeriesBlock(resp, time_series_key) ==
    LET o == AsObject(Get(resp, time_series_key))
    IN IF IsSome(o)
       THEN Ok(o)
       ELSE Err(Custom("No '" \o time_series_key \o "' data found in response"))

\* The body the four time-series transformers share, given the block key, the
\* name and the alias of the date column.
TransformTimeSeries(resp, time_series_key, dateCol, alias) ==
    LET metadata == Get(resp, "Meta Data")
        block == TimeSeriesBlock(resp, time_series_key)
    IN IF block.tag = "Err" THEN block
       ELSE Ok([data |-> JArr(SortBy(TimeSeriesRows(dateCol, block.val), dateCol)),
                metadata |-> metadata,
                schema |-> <<ColumnDef(dateCol, alias, "string")>> \o OhlcvColumns])

\* format!("Time Series ({})", interval)
IntradayKey(interval) == "Time Series (" \o interval \o ")"

transform_intraday_response(resp, interval) ==
    TransformTimeSeries(resp, IntradayKey(interval), "timestamp", "Timestamp")

transform_daily_response(resp) ==
    TransformTimeSeries(resp, "Time Series (Daily)", "date", "Date")

transform_weekly_response(resp) ==
    TransformTimeSeries(resp, "Weekly Time Series", "week_ending", "Week Ending")

transform_monthly_response(resp) ==
    TransformTimeSeries(resp, "Monthly Time Series", "month", "Month")

(***************************************************************************)
(* The fundamentals transformers.                                          *)
(***************************************************************************)
\* let data_array = vec![response.clone()]; no metadata.
transform_company_overview_response(resp) ==
    Ok([data |-> JArr(<<resp>>),
        metadata |-> None,
        schema |->
          << ColumnDef("Symbol", "Symbol", "string"),
             ColumnDef("Name", "Company Name", "string"),
             ColumnDef("AssetType", "Asset Type", "string"),
             ColumnDef("Exchange", "Exchange", "string"),
             ColumnDef("Currency", "Currency", "string"),
             ColumnDef("Country", "Country", "string"),
             ColumnDef("Sector", "Sector", "string"),
             ColumnDef("Industry", "Industry", "string"),
             ColumnDef("MarketCapitalization", "Market Cap", "number"),
             ColumnDef("EBITDA", "EBITDA", "number"),
             ColumnDef("PERatio", "P/E Ratio", "number"),
             ColumnDef("PEGRatio", "PEG Ratio", "number"),
             ColumnDef("BookValue", "Book Value", "number"),
             ColumnDef("DividendPerShare", "Dividend Per Share", "number"),
             ColumnDef("DividendYield", "Dividend Yield", "number"),
             ColumnDef("EPS", "EPS", "number"),
             ColumnDef("RevenuePerShareTTM", "Revenue Per Share TTM", "number"),
             ColumnDef("ProfitMargin", "Profit Margin", "number"),
             ColumnDef("OperatingMarginTTM", "Operating Margin TTM", "number"),
             ColumnDef("ReturnOnAssetsTTM", "Return on Assets TTM", "number"),
             ColumnDef("ReturnOnEquityTTM", "Return on Equity TTM", "number"),
             ColumnDef("RevenueTTM", "Revenue TTM", "number"),
             ColumnDef("GrossProfitTTM", "Gross Profit TTM", "number") >>])

\* A transformer that reads the symbol as a string.
SymbolMetadataOfString(resp) ==
    LET symbol == AsStr(Get(resp, "symbol"))
    IN IF IsSome(symbol) THEN JObj([k \in {"symbol"} |-> symbol]) ELSE None

\* let symbol = response.get("symbol").cloned(); symbol.map(|s| json!({"symbol": s}))
SymbolMetadata(resp) ==
    LET symbol == Get(resp, "symbol")
    IN IF IsSome(symbol) THEN JObj([k \in {"symbol"} |-> symbol]) ELSE None

\* A field list is a sequence of <<column, vendor field, alias, dtype>>.
FieldIndex(fields, col) == CHOOSE i \in 1..Len(fields) : fields[i][1] = col

\* One row: period_type (when the transformer tags rows) and, for every field,
\* entry.get(vendor field).cloned().unwrap_or(json!(null)).
ReportRow(period, entry, fields) ==
    LET cols == {fields[i][1] : i \in 1..Len(fields)}
    IN JObj([k \in cols \cup (IF period = "" THEN {} ELSE {"period_type"}) |->
             IF k = "period_type" /\ period # "" THEN JStr(period)
             ELSE UnwrapOrNull(Get(entry, fields[FieldIndex(fields, k)][2]))])

\* The loop with a row pushed for the entries that are objects only.
ReportRowsObjectsOnly(resp, key, period, fields) ==
    LET array == AsArray(Get(resp, key))
        objects == IF IsSome(array) THEN SelectSeq(array.v, LAMBDA e : e.t = "object") ELSE <<>>
    IN [i \in 1..Len(objects) |-> ReportRow(period, objects[i], fields)]

\* if let Some(array) = response.get(key).and_then(|v| v.as_array()) { for e in array {..push(row)} }
ReportRows(resp, key, period, fields) ==
    LET array == AsArray(Get(resp, key))
    IN IF IsSome(array)
       THEN [i \in 1..Len(array.v) |-> ReportRow(period, array.v[i], fields)]
       ELSE <<>>

SchemaOf(fields) == [i \in 1..Len(fields) |-> ColumnDef(fields[i][1], fields[i][3], fields[i][4])]

PeriodTypeColumn == <<ColumnDef("period_type", "Period Type", "string")>>

EarningsAnnualFields ==
    << <<"fiscal_date_ending", "fiscalDateEnding", "Fiscal Date Ending", "string">>,
       <<"reported_eps", "reportedEPS", "Reported EPS", "number">> >>

EarningsQuarterlyFields ==
    EarningsAnnualFields \o
    << <<"reported_date", "reportedDate", "Reported Date", "string">>,
       <<"estimated_eps", "estimatedEPS", "Estimated EPS", "number">>,
       <<"surprise", "surprise", "Surprise", "number">>,
       <<"surprise_percentage", "surprisePercentage", "Surprise %", "number">> >>

transform_earnings_response(resp) ==
    Ok([data |-> JArr(SortBy(
                    ReportRows(resp, "annualEarnings", "annual", EarningsAnnualFields)
                    \o ReportRows(resp, "quarterlyEarnings", "quarterly", EarningsQuarterlyFields),
                    "fiscal_date_ending")),
        metadata |-> SymbolMetadata(resp),
        schema |-> PeriodTypeColumn \o SchemaOf(EarningsQuarterlyFields)])

EstimatesFields ==
    << <<"date", "date", "Date", "string">>,
       <<"horizon", "horizon", "Horizon", "string">>,
       <<"eps_estimate_average", "eps_estimate_average", "EPS Estimate (Avg)", "number">>,
       <<"eps_estimate_high", "eps_estimate_high", "EPS Estimate (High)", "number">>,
       <<"eps_estimate_low", "eps_estimate_low", "EPS Estimate (Low)", "number">>,
       <<"eps_estimate_analyst_count", "eps_estimate_analyst_count", "EPS Analyst Count", "number">>,
       <<"revenue_estimate_average", "revenue_estimate_average", "Revenue Estimate (Avg)", "number">>,
       <<"revenue_estimate_high", "revenue_estimate_high", "Revenue Estimate (High)", "number">>,
       <<"revenue_estimate_low", "revenue_estimate_low", "Revenue Estimate (Low)", "number">>,
       <<"revenue_estimate_analyst_count", "revenue_estimate_analyst_count", "Revenue Analyst Count", "number">> >>

\* The transformer with the estimates array required as a time-series block is.
transform_earnings_estimates_requiring(resp) ==
    IF IsSome(AsArray(Get(resp, "estimates")))
    THEN Ok([data |-> JArr(SortBy(ReportRows(resp, "estimates", "", EstimatesFields), "date")),
             metadata |-> SymbolMetadata(resp),
             schema |-> SchemaOf(EstimatesFields)])
    ELSE Err(Custom("No 'estimates' data found in response"))

transform_earnings_estimates_response(resp) ==
    Ok([data |-> JArr(SortBy(ReportRows(resp, "estimates", "", EstimatesFields), "date")),
        metadata |-> SymbolMetadata(resp),
        schema |-> SchemaOf(EstimatesFields)])

\* The body the three statement transformers share, given their field list.
TransformReports(resp, fields) ==
    Ok([data |-> JArr(SortBy(
                    ReportRows(resp, "annualReports", "annual", fields)
                    \o ReportRows(resp, "quarterlyReports", "quarterly", fields),
                    "fiscal_date_ending")),
        metadata |-> SymbolMetadata(resp),
        schema |-> PeriodTypeColumn \o SchemaOf(fields)])

IncomeStatementFields ==
    << <<"fiscal_date_ending", "fiscalDateEnding", "Fiscal Date Ending", "string">>,
       <<"total_revenue", "totalRevenue", "Total Revenue", "number">>,
       <<"cost_of_revenue", "costOfRevenue", "Cost of Revenue", "number">>,
       <<"gross_profit", "grossProfit", "Gross Profit", "number">>,
       <<"operating_income", "operatingIncome", "Operating Income", "number">>,
       <<"net_income", "netIncome", "Net Income", "number">>,
       <<"ebitda", "ebitda", "EBITDA", "number">>,
       <<"ebit", "ebit", "EBIT", "number">>,
       <<"income_before_tax", "incomeBeforeTax", "Income Before Tax", "number">>,
       <<"income_tax_expense", "incomeTaxExpense", "Income Tax Expense", "number">> >>

transform_income_statement_response(resp) == TransformReports(resp, IncomeStatementFields)

BalanceSheetFields ==
    << <<"fiscal_date_ending", "fiscalDateEnding", "Fiscal Date Ending", "string">>,
       <<"total_assets", "totalAssets", "Total Assets", "number">>,
       <<"total_current_assets", "totalCurrentAssets", "Total Current Assets", "number">>,
       <<"cash_and_cash_equivalents", "cashAndCashEquivalentsAtCarryingValue", "Cash & Cash Equivalents", "number">>,
       <<"total_liabilities", "totalLiabilities", "Total Liabilities", "number">>,
       <<"total_current_liabilities", "totalCurrentLiabilities", "Total Current Liabilities", "number">>,
       <<"total_shareholder_equity", "totalShareholderEquity", "Total Shareholder Equity", "number">>,
       <<"retained_earnings", "retainedEarnings", "Retained Earnings", "number">>,
       <<"common_stock", "commonStock", "Common Stock", "number">> >>

transform_balance_sheet_response(resp) == TransformReports(resp, BalanceSheetFields)

CashFlowFields ==
    << <<"fiscal_date_ending", "fiscalDateEnding", "Fiscal Date Ending", "string">>,
       <<"operating_cashflow", "operatingCashflow", "Operating Cash Flow", "number">>,
       <<"payments_for_operating_activities", "paymentsForOperatingActivities", "Payments for Operating Activities", "number">>,
       <<"proceeds_from_operating_activities", "proceedsFromOperatingActivities", "Proceeds from Operating Activities", "number">>,
       <<"change_in_operating_liabilities", "changeInOperatingLiabilities", "Change in Operating Liabilities", "number">>,
       <<"change_in_operating_assets", "changeInOperatingAssets", "Change in Operating Assets", "number">>,
       <<"depreciation_depletion_and_amortization", "depreciationDepletionAndAmortization", "Depreciation & Amortization", "number">>,
       <<"capital_expenditures", "capitalExpenditures", "Capital Expenditures", "number">>,
       <<"change_in_receivables", "changeInReceivables", "Change in Receivables", "number">>,
       <<"change_in_inventory", "changeInInventory", "Change in Inventory", "number">>,
       <<"profit_loss", "profitLoss", "Profit/Loss", "number">>,
       <<"cashflow_from_investment", "cashflowFromInvestment", "Cash Flow from Investment", "number">>,
       <<"cashflow_from_financing", "cashflowFromFinancing", "Cash Flow from Financing", "number">> >>

transform_cash_flow_response(resp) == TransformReports(resp, CashFlowFields)

(***************************************************************************)
(* The tool catalogue.  A descriptor is modelled by its id, its name and,  *)
(* of its JSON schema, the properties with their enum and the required     *)
(* list; the descriptions are left out.                                    *)
(***************************************************************************)
ToolInfo(id, name, properties, required) ==
    [id |-> id, name |-> name, schema |-> [properties |-> properties, required |-> required]]

\* "symbol": { "type": "string", .. }
SymbolProperty == [p \in {"symbol"} |-> <<>>]

\* "outputsize": { "type": "string", "enum": ["compact", "full"], "default": "compact", .. }
OutputSizeProperty == [p \in {"outputsize"} |-> <<"compact", "full">>]

\* "interval": { "type": "string", "enum": ["1min", "5min", "15min", "30min", "60min"], .. }
IntervalProperty == [p \in {"interval"} |-> <<"1min", "5min", "15min", "30min", "60min">>]

\* "horizon": { "type": "string", "enum": ["3month", "6month", "12month", "all"], "default": "all", .. }
HorizonProperty == [p \in {"horizon"} |-> <<"3month", "6month", "12month", "all">>]

\* // Time Series Endpoints
TimeSeriesToolInfos ==
    << ToolInfo("time_series_intraday", "Intraday Time Series",
                SymbolProperty @@ IntervalProperty @@ OutputSizeProperty, <<"symbol", "interval">>),
       ToolInfo("time_series_daily", "Daily Time Series",
                SymbolProperty @@ OutputSizeProperty, <<"symbol">>),
       ToolInfo("time_series_weekly", "Weekly Time Series", SymbolProperty, <<"symbol">>),
       ToolInfo("time_series_monthly", "Monthly Time Series", SymbolProperty, <<"symbol">>) >>

\* // Fundamental Data Endpoints
FundamentalsToolInfos ==
    << ToolInfo("company_overview", "Company Overview", SymbolProperty, <<"symbol">>),
       ToolInfo("earnings", "Earnings", SymbolProperty, <<"symbol">>),
       ToolInfo("earnings_estimates", "Earnings Estimates",
                SymbolProperty @@ HorizonProperty, <<"symbol">>),
       ToolInfo("income_statement", "Income Statement", SymbolProperty, <<"symbol">>),
       ToolInfo("balance_sheet", "Balance Sheet", SymbolProperty, <<"symbol">>),
       ToolInfo("cash_flow", "Cash Flow Statement", SymbolProperty, <<"symbol">>) >>

\* The catalogue with the fundamentals tools listed first.
list_tools_fundamentals_first == FundamentalsToolInfos \o TimeSeriesToolInfos

\* pub fn list_tools() -> Vec<ToolInfo> { vec![ .. ] }
list_tools == TimeSeriesToolInfos \o FundamentalsToolInfos

Some(x) == [t |-> "some", v |-> x]

\* Iterator::find with the closure |t| t.id == tool_id: the first element
\* of that id.
Find(seq, tool_id) ==
    LET hits == {i \in 1..Len(seq) : seq[i].id = tool_id}
    IN IF hits = {} THEN None
       ELSE Some(seq[CHOOSE i \in hits : \A j \in hits : i <= j])

\* The lookup with an unknown id answered by the first descriptor.
get_tool_details_defaulting(tool_id) ==
    LET found == Find(list_tools, tool_id)
    IN IF IsSome(found) THEN found ELSE Some(list_tools[1])

\* list_tools().into_iter().find(|t| t.id == tool_id)
get_tool_details(tool_id) == Find(list_tools, tool_id)

(***************************************************************************)
(* The endpoint request builders and their get.                            *)
(***************************************************************************)
\* impl Display for Interval
DisplayInterval(interval) ==
    CASE interval = "OneMin" -> "1min"
      [] interval = "FiveMin" -> "5min"
      [] interval = "FifteenMin" -> "15min"
      [] interval = "ThirtyMin" -> "30min"
      [] interval = "SixtyMin" -> "60min"

\* format!("outputsize={size:?}").to_lowercase(), size being Compact or Full.
OutputSizeParam(size) ==
    CASE size = "Compact" -> "outputsize=compact"
      [] size = "Full" -> "outputsize=full"

\* [String]::join(sep)
RECURSIVE Join(_, _)
Join(strs, sep) ==
    IF strs = <<>> THEN ""
    ELSE IF Len(strs) = 1 THEN strs[1]
    ELSE strs[1] \o sep \o Join(Tail(strs), sep)

Url(params) == "https://www.alphavantage.co/query?" \o Join(params, "&")

\* self.client.api_key().ok_or_else(|| Error::Custom("API key not set"))
\* The key read with a fallback to the vendor's demo key.
ApiKeyOfDefaulting(cl) ==
    IF IsSome(cl.api_key) THEN Ok(cl.api_key.v) ELSE Ok("demo")

ApiKeyOf(cl) ==
    IF IsSome(cl.api_key) THEN Ok(cl.api_key.v) ELSE Err(Custom("API key not set"))

\* TimeSeriesIntraday::get up to the transport's get: the URL, or the error.
TimeSeriesIntradayUrl(cl, query) ==
    LET api_key == ApiKeyOf(cl)
    IN IF api_key.tag = "Err" THEN api_key
       ELSE Ok(Url(<< "function=TIME_SERIES_INTRADAY",
                      "symbol=" \o query.symbol,
                      "interval=" \o DisplayInterval(query.interval),
                      "apikey=" \o api_key.val >>
                   \o (IF query.outputsize # "None"
                       THEN <<OutputSizeParam(query.outputsize)>> ELSE <<>>)
                   \o (IF IsSome(query.datatype)
                       THEN <<"datatype=" \o query.datatype.v>> ELSE <<>>)))

\* TimeSeriesDaily::get up to the transport's get.
TimeSeriesDailyUrl(cl, query) ==
    LET api_key == ApiKeyOf(cl)
    IN IF api_key.tag = "Err" THEN api_key
       ELSE Ok(Url(<< "function=TIME_SERIES_DAILY",
                      "symbol=" \o query.symbol,
                      "apikey=" \o api_key.val >>
                   \o (IF query.outputsize # "None"
                       THEN <<OutputSizeParam(query.outputsize)>> ELSE <<>>)
                   \o (IF IsSome(query.datatype)
                       THEN <<"datatype=" \o query.datatype.v>> ELSE <<>>)))

\* EarningsEstimates::get up to the transport's get.
EarningsEstimatesUrl(cl, query) ==
    LET api_key == ApiKeyOf(cl)
    IN IF api_key.tag = "Err" THEN api_key
       ELSE Ok(Url(<< "function=EARNINGS_ESTIMATES",
                      "symbol=" \o query.symbol,
                      "apikey=" \o api_key.val >>
                   \o (IF IsSome(query.horizon)
                       THEN <<"horizon=" \o query.horizon.v>> ELSE <<>>)))

\* CashFlow::get up to the transport's get.
CashFlowUrl(cl, query) ==
    LET api_key == ApiKeyOf(cl)
    IN IF api_key.tag = "Err" THEN api_key
       ELSE Ok(Url(<< "function=CASH_FLOW",
                      "symbol=" \o query.symbol,
                      "apikey=" \o api_key.val >>))

\* The vendor function codes of the builders whose get takes a symbol alone.
FunctionCode(tool) ==
    CASE tool = "time_series_weekly" -> "TIME_SERIES_WEEKLY"
      [] tool = "time_series_monthly" -> "TIME_SERIES_MONTHLY"
      [] tool = "company_overview" -> "OVERVIEW"
      [] tool = "earnings" -> "EARNINGS"
      [] tool = "income_statement" -> "INCOME_STATEMENT"
      [] tool = "balance_sheet" -> "BALANCE_SHEET"

\* The get of TimeSeriesWeekly, TimeSeriesMonthly, CompanyOverview, Earnings,
\* IncomeStatement and BalanceSheet, up to the transport's get.
SymbolOnlyUrl(cl, query) ==
    LET api_key == ApiKeyOf(cl)
    IN IF api_key.tag = "Err" THEN api_key
       ELSE Ok(Url(<< "function=" \o FunctionCode(query.tool),
                      "symbol=" \o query.symbol,
                      "apikey=" \o api_key.val >>))

\* Execute::get of the builder call_tool made, up to the transport's get.
BuilderUrl(cl, query) ==
    CASE query.tool = "time_series_intraday" -> TimeSeriesIntradayUrl(cl, query)
      [] query.tool = "time_series_daily" -> TimeSeriesDailyUrl(cl, query)
      [] query.tool = "earnings_estimates" -> EarningsEstimatesUrl(cl, query)
      [] query.tool = "cash_flow" -> CashFlowUrl(cl, query)
      [] OTHER -> SymbolOnlyUrl(cl, query)

\* Raw::process: the body of a response the transport delivered with a
\* success status; the transport's error and an error status are failures.
RawProcess(resp) ==
    IF resp.tag = "Err" THEN resp
    ELSE IF resp.val.status < 200 \/ resp.val.status > 299
         THEN Err([kind |-> "ApiError", request_id |-> resp.val.request_id,
                   status |-> resp.val.status, message |-> resp.val.body])
         ELSE Ok(resp.val.body)

\* serde_json::from_str(&response).map_err(|e| Error::Custom(format!("Failed to parse response: {e}")))
\* A body is a text: the text of a JSON value, or a text that is no JSON.
ParseBody(body) ==
    IF body.text = "json" THEN Ok(body.json)
    ELSE Err(Custom("Failed to parse response: expected value at line 1 column 1"))

(***************************************************************************)
(* The Table and Decoder processors.                                       *)
(***************************************************************************)
\* if resp.status() != 200 { return Err(Error::ApiError { request_id, status, message }) }
StatusCheck(resp) ==
    IF resp.status # 200
    THEN Err([kind |-> "ApiError", request_id |-> resp.request_id,
              status |-> resp.status, message |-> resp.body])
    ELSE Ok(resp.body)

\* serde_json::from_str(resp.body())?
FromStr(body) ==
    IF body.text = "json" THEN Ok(body.json)
    ELSE Err([kind |-> "Json", message |-> "expected value at line 1 column 1"])

\* json_value.get("estimates").or_else(|| json_value.get("results")) .. .unwrap_or(&json_value)
TableData(json_value) ==
    LET keys == <<"estimates", "results", "annualReports", "quarterlyReports", "data">>
        hits == {i \in 1..Len(keys) : IsSome(Get(json_value, keys[i]))}
    IN IF hits = {} THEN json_value
       ELSE Get(json_value, keys[CHOOSE i \in hits : \A j \in hits : i <= j])

\* Table::process: the outcomes it may return.  What JsonReader makes of an
\* array is the reader's matter: it gives the frame of the array or fails.
TableProcess(response_) ==
    IF response_.tag = "Err" THEN {response_}
    ELSE LET body == StatusCheck(response_.val)
             json_value == FromStr(body.val)
             data == TableData(json_value.val)
         IN IF body.tag = "Err" THEN {body}
            ELSE IF json_value.tag = "Err" THEN {json_value}
            ELSE IF data.t # "array"
                 THEN {Err(Custom("Expected array data for DataFrame conversion, got: "
                                  \o (CASE data.t = "object" -> "object"
                                        [] data.t = "null" -> "null"
                                        [] OTHER -> "other")))}
                 ELSE {Ok([frame |-> data.v]),
                       Err(Custom("Failed to parse JSON as DataFrame"))}

\* The decoder functions a Decoder is built with: one that takes any value,
\* one that takes an object alone.
DecoderFns == {"any", "object"}

\* (self.decoder_fn)(value)?
Decode(decoder_fn, value) ==
    IF decoder_fn = "object" /\ value.t # "object"
    THEN Err([kind |-> "Decode", message |-> "expected an object"])
    ELSE Ok(value)

\* Decoder::process
DecoderProcess(decoder_fn, response_) ==
    IF response_.tag = "Err" THEN {response_}
    ELSE LET body == StatusCheck(response_.val)
             value == FromStr(body.val)
         IN IF body.tag = "Err" THEN {body}
            ELSE IF value.tag = "Err" THEN {value}
            ELSE {Decode(decoder_fn, value.val)}

(***************************************************************************)
(* call_tool.                                                              *)
(***************************************************************************)
\* The ten arms of call_tool's match.
KnownTools ==
    { "time_series_intraday", "time_series_daily", "time_series_weekly",
      "time_series_monthly", "company_overview", "earnings", "earnings_estimates",
      "income_statement", "balance_sheet", "cash_flow" }

\* The envelope's tool looked up without the as_str test.
ToolFieldAnyValue(req) ==
    LET tool == Get(req, "tool")
    IN IF IsSome(tool) THEN Ok(IF tool.t = "string" THEN tool.v ELSE "")
       ELSE Err(Custom("Missing 'tool' field"))

\* request.get("tool").and_then(|v| v.as_str()).ok_or_else(..)
ToolField(req) ==
    LET tool == AsStr(Get(req, "tool"))
    IN IF IsSome(tool) THEN Ok(tool.v) ELSE Err(Custom("Missing 'tool' field"))

\* request.get("params").ok_or_else(..)
ParamsField(req) ==
    LET params == Get(req, "params")
    IN IF IsSome(params) THEN Ok(params) ELSE Err(Custom("Missing 'params' field"))

\* The symbol defaulted to the empty string when it is missing.
SymbolParamDefaulted(params) ==
    LET symbol == AsStr(Get(params, "symbol"))
    IN IF IsSome(symbol) THEN Ok(symbol.v) ELSE Ok("")

\* params.get("symbol").and_then(|v| v.as_str()).ok_or_else(..)
SymbolParam(params) ==
    LET symbol == AsStr(Get(params, "symbol"))
    IN IF IsSome(symbol) THEN Ok(symbol.v) ELSE Err(Custom("Missing 'symbol' parameter"))

\* An interval that falls back to five minutes.
IntervalParamDefaulted(params) ==
    LET interval == AsStr(Get(params, "interval"))
    IN IF IsSome(interval) THEN Ok(interval.v) ELSE Ok("5min")

\* params.get("interval").and_then(|v| v.as_str()).ok_or_else(..)
IntervalParam(params) ==
    LET interval == AsStr(Get(params, "interval"))
    IN IF IsSome(interval) THEN Ok(interval.v)
       ELSE Err(Custom("Missing 'interval' parameter"))

\* Interval::from_str in the place of call_tool's match: the token is
\* lower-cased before it is matched.
IntervalEnumIgnoringCase(interval) ==
    CASE interval = "1min" -> Ok("OneMin")
      [] interval \in {"5min", "5MIN"} -> Ok("FiveMin")
      [] interval = "15min" -> Ok("FifteenMin")
      [] interval = "30min" -> Ok("ThirtyMin")
      [] interval = "60min" -> Ok("SixtyMin")
      [] OTHER -> Err(Custom("Invalid interval: " \o interval))

\* match interval { "1min" => Interval::OneMin, .., _ => return Err(..) }
IntervalEnum(interval) ==
    CASE interval = "1min" -> Ok("OneMin")
      [] interval = "5min" -> Ok("FiveMin")
      [] interval = "15min" -> Ok("FifteenMin")
      [] interval = "30min" -> Ok("ThirtyMin")
      [] interval = "60min" -> Ok("SixtyMin")
      [] OTHER -> Err(Custom("Invalid interval: " \o interval))

\* if let Some(outputsize) = params.get("outputsize").and_then(|v| v.as_str()) { match .. }
OutputSizeParamOf(params) ==
    LET outputsize == AsStr(Get(params, "outputsize"))
    IN IF ~IsSome(outputsize) THEN Ok("None")
       ELSE CASE outputsize.v = "compact" -> Ok("Compact")
              [] outputsize.v = "full" -> Ok("Full")
              [] OTHER -> Err(Custom("Invalid outputsize: " \o outputsize.v))

\* The horizon taken only when it is one of the values the catalogue lists.
HorizonParamOfEnumerated(params) ==
    LET horizon == AsStr(Get(params, "horizon"))
    IN IF IsSome(horizon) /\ horizon.v \in {"3month", "6month", "12month", "all"}
       THEN horizon ELSE None

\* if let Some(horizon) = params.get("horizon").and_then(|v| v.as_str()) { query.horizon(..) }
HorizonParamOf(params) == AsStr(Get(params, "horizon"))

\* A request builder as call_tool leaves it before get.
Query(tool, symbol, interval, outputsize, horizon) ==
    [tool |-> tool, symbol |-> symbol, interval |-> interval,
     outputsize |-> outputsize, horizon |-> horizon, datatype |-> None]

\* The intraday arm with outputsize read before symbol and interval.
IntradayQueryOutputSizeFirst(params) ==
    LET symbol == SymbolParam(params)
        interval == IntervalParam(params)
        interval_enum == IntervalEnum(interval.val)
        size == OutputSizeParamOf(params)
    IN IF size.tag = "Err" THEN size
       ELSE IF symbol.tag = "Err" THEN symbol
       ELSE IF interval.tag = "Err" THEN interval
       ELSE IF interval_enum.tag = "Err" THEN interval_enum
       ELSE Ok(Query("time_series_intraday", symbol.val, interval_enum.val, size.val, None))

\* The arm "time_series_intraday" up to query.get().
IntradayQuery(params) ==
    LET symbol == SymbolParam(params)
        interval == IntervalParam(params)
        interval_enum == IntervalEnum(interval.val)
        size == OutputSizeParamOf(params)
    IN IF symbol.tag = "Err" THEN symbol
       ELSE IF interval.tag = "Err" THEN interval
       ELSE IF interval_enum.tag = "Err" THEN interval_enum
       ELSE IF size.tag = "Err" THEN size
       ELSE Ok(Query("time_series_intraday", symbol.val, interval_enum.val, size.val, None))

\* The arm "time_series_daily" up to query.get().
DailyQuery(params) ==
    LET symbol == SymbolParam(params)
        size == OutputSizeParamOf(params)
    IN IF symbol.tag = "Err" THEN symbol
       ELSE IF size.tag = "Err" THEN size
       ELSE Ok(Query("time_series_daily", symbol.val, "None", size.val, None))

\* The arm "earnings_estimates" up to query.get().
EarningsEstimatesQuery(params) ==
    LET symbol == SymbolParam(params)
    IN IF symbol.tag = "Err" THEN symbol
       ELSE Ok(Query("earnings_estimates", symbol.val, "None", "None", HorizonParamOf(params)))

\* The arms that read the symbol alone, up to query.get().
SymbolOnlyQuery(tool, params) ==
    LET symbol == SymbolParam(params)
    IN IF symbol.tag = "Err" THEN symbol
       ELSE Ok(Query(tool, symbol.val, "None", "None", None))

\* The match with a catch-all arm that falls back to the daily series.
ToolQueryDefaulting(tool, params) ==
    CASE tool = "time_series_intraday" -> IntradayQuery(params)
      [] tool = "earnings_estimates" -> EarningsEstimatesQuery(params)
      [] tool \in KnownTools \ {"time_series_intraday", "time_series_daily", "earnings_estimates"} ->
            SymbolOnlyQuery(tool, params)
      [] OTHER -> DailyQuery(params)

\* match tool { .. _ => Err(Error::Custom(format!("Unknown tool: {tool}"))) }
ToolQuery(tool, params) ==
    CASE tool = "time_series_intraday" -> IntradayQuery(params)
      [] tool = "time_series_daily" -> DailyQuery(params)
      [] tool = "earnings_estimates" -> EarningsEstimatesQuery(params)
      [] tool \in KnownTools \ {"time_series_intraday", "time_series_daily", "earnings_estimates"} ->
            SymbolOnlyQuery(tool, params)
      [] OTHER -> Err(Custom("Unknown tool: " \o tool))

\* call_tool from its entry to the transport's get: an error returned, or the
\* URL handed to the transport.
CallToolStart(cl, req) ==
    LET tool == ToolField(req)
        params == ParamsField(req)
        query == ToolQuery(tool.val, params.val)
    IN IF tool.tag = "Err" THEN tool
       ELSE IF params.tag = "Err" THEN params
       ELSE IF query.tag = "Err" THEN query
       ELSE BuilderUrl(cl, query.val)

\* The transformers with a memory of the process: once the transport has
\* been asked more than once they are handed null for the response.
TransformAfterOthers(tool, response_json, interval) ==
    LET json == IF Len(sent) > 1 THEN JNull ELSE response_json
    IN CASE tool = "time_series_intraday" -> transform_intraday_response(json, interval)
         [] tool = "time_series_daily" -> transform_daily_response(json)
         [] tool = "time_series_weekly" -> transform_weekly_response(json)
         [] tool = "time_series_monthly" -> transform_monthly_response(json)
         [] tool = "company_overview" -> transform_company_overview_response(json)
         [] tool = "earnings" -> transform_earnings_response(json)
         [] tool = "earnings_estimates" -> transform_earnings_estimates_response(json)
         [] tool = "income_statement" -> transform_income_statement_response(json)
         [] tool = "balance_sheet" -> transform_balance_sheet_response(json)
         [] tool = "cash_flow" -> transform_cash_flow_response(json)

\* The transformer of the arm; the intraday one is given the caller's interval.
Transform(tool, response_json, interval) ==
    CASE tool = "time_series_intraday" -> transform_intraday_response(response_json, interval)
      [] tool = "time_series_daily" -> transform_daily_response(response_json)
      [] tool = "time_series_weekly" -> transform_weekly_response(response_json)
      [] tool = "time_series_monthly" -> transform_monthly_response(response_json)
      [] tool = "company_overview" -> transform_company_overview_response(response_json)
      [] tool = "earnings" -> transform_earnings_response(response_json)
      [] tool = "earnings_estimates" -> transform_earnings_estimates_response(response_json)
      [] tool = "income_statement" -> transform_income_statement_response(response_json)
      [] tool = "balance_sheet" -> transform_balance_sheet_response(response_json)
      [] tool = "cash_flow" -> transform_cash_flow_response(response_json)

\* Ok(ToolCallResult::DataFrame { data, schema, metadata })
DataFrame(t) ==
    Ok([variant |-> "DataFrame", data |-> t.data, schema |-> t.schema, metadata |-> t.metadata])

\* call_tool from the transport's answer to its return.
CallToolFinish(req, resp) ==
    LET tool == Get(req, "tool").v
        interval == Get(Get(req, "params"), "interval").v
        body == RawProcess(resp)
        response_json == ParseBody(body.val)
        t == Transform(tool, response_json.val, interval)
    IN IF body.tag = "Err" THEN body
       ELSE IF response_json.tag = "Err" THEN response_json
       ELSE IF t.tag = "Err" THEN t
       ELSE DataFrame(t.val)

(***************************************************************************)
(* The inputs: envelopes, clients and transport answers.                   *)
(***************************************************************************)
\* The largest number of entries of a time-series block.
MaxEntries == 2

\* json!({..}): the object of the members that are present.
ObjOf(f) == JObj([k \in {m \in DOMAIN f : IsSome(f[m])} |-> f[k]])

ToolValues ==
    {None, JNum(7)} \cup {JStr(t) : t \in KnownTools \cup {"foo", "EARNINGS", ""}}

SymbolValues == {None, JNum(7), JStr("IBM"), JStr("A&B=C")}

IntervalTokens == {"1min", "5min", "15min", "30min", "60min"}

IntervalValues ==
    {None, JNum(5)} \cup {JStr(i) : i \in IntervalTokens \cup {"5MIN", "2min"}}

OutputSizeValues ==
    {None, JNull, JNum(100), JStr("compact"), JStr("full"), JStr("Compact"), JStr("medium")}

HorizonValues == {JNum(3), JStr("3month"), JStr("next_year")}

ParamsValues ==
    {None, JNull, JStr("IBM")}
    \cup {ObjOf([symbol |-> s, interval |-> i, outputsize |-> o]) :
            s \in SymbolValues, i \in IntervalValues, o \in OutputSizeValues}
    \cup {ObjOf([symbol |-> s, horizon |-> h]) : s \in SymbolValues, h \in HorizonValues}

Envelopes ==
    {JNull, JStr("time_series_daily")}
    \cup {ObjOf([tool |-> t, params |-> p]) : t \in ToolValues, p \in ParamsValues}

Clients == {[api_key |-> None], [api_key |-> JStr("demo")]}

\* Arc::from(client): a client behind a shared pointer; id tells one
\* allocation from another.
Arc(id, cl) == [id |-> id, api_key |-> cl.api_key]

\* LazyLock::new(|| ArcSwap::from_pointee(AlphaVantage::default()))
DefaultInstance == Arc(0, [api_key |-> None])

JsonBody(val) == [text |-> "json", json |-> val]
GarbageBody == [text |-> "garbage", json |-> JNull]
HttpResponse(status, body, request_id) ==
    Ok([status |-> status, body |-> body, request_id |-> request_id])

OhlcvFull ==
    JObj([k \in {"1. open", "2. high", "3. low", "4. close", "5. volume"} |->
            IF k = "5. volume" THEN JStr("100") ELSE JStr("1.5")])

MetaData == JObj([k \in {"1. Information", "2. Symbol"} |-> JStr("IBM")])

\* The entries a block may hold: no object, an empty one, a partial one, a
\* full one, one with a member the transformer does not read.
EntryValues ==
    { JStr("n/a"), JObj(<<>>), JObj([k \in {"1. open"} |-> JStr("1.5")]), OhlcvFull,
      JObj([k \in {"2. high", "5. volume", "6. note"} |->
              IF k = "5. volume" THEN JNum(100) ELSE JStr("2.5")]) }

Blocks ==
    UNION { {JObj(f) : f \in [keys -> EntryValues]} :
              keys \in {ks \in SUBSET DateStrings : Cardinality(ks) <= MaxEntries} }

BlockValues == {JNull, JStr("n/a"), JArr(<<>>)} \cup Blocks

TimeSeriesKeys ==
    { "Time Series (1min)", "Time Series (5min)", "Time Series (Daily)",
      "Weekly Time Series", "Monthly Time Series" }

TimeSeriesJson ==
    {JNull, JArr(<<>>)}
    \cup {ObjOf([k \in {"Meta Data"} |-> m]) : m \in {None, MetaData}}
    \cup {ObjOf([k \in {"Meta Data", key} |-> IF k = key THEN b ELSE m]) :
            m \in {None, MetaData, JStr("meta")}, key \in TimeSeriesKeys, b \in BlockValues}

TimeSeriesResponses == {HttpResponse(200, JsonBody(j), None) : j \in TimeSeriesJson}

TimeSeriesEnvelopes ==
    {ObjOf([tool |-> JStr("time_series_intraday"),
            params |-> ObjOf([symbol |-> JStr("IBM"), interval |-> JStr(i)])]) :
        i \in {"1min", "5min"}}
    \cup {ObjOf([tool |-> JStr(t), params |-> ObjOf([symbol |-> JStr("IBM")])]) :
            t \in {"time_series_daily", "time_series_weekly", "time_series_monthly"}}

Reports ==
    JObj([k \in {"symbol", "annualReports", "quarterlyReports"} |->
            CASE k = "symbol" -> JStr("IBM")
              [] k = "annualReports" ->
                    JArr(<<JObj([f \in {"fiscalDateEnding", "totalRevenue"} |-> JStr("1")])>>)
              [] k = "quarterlyReports" ->
                    JArr(<<JObj([f \in {"fiscalDateEnding", "netIncome"} |-> JStr("2")])>>)])

Overview == JObj([k \in {"Symbol", "Name"} |-> JStr("IBM")])

BasicJson ==
    { JNull, JArr(<<>>), JObj(<<>>), Reports, Overview,
      JObj([k \in {"Meta Data", "Time Series (5min)"} |->
              IF k = "Meta Data" THEN MetaData
              ELSE JObj([d \in {"1", "10"} |-> OhlcvFull])]),
      JObj([k \in {"Meta Data", "Time Series (Daily)"} |->
              IF k = "Meta Data" THEN MetaData
              ELSE JObj([d \in {"2"} |-> OhlcvFull])]) }

\* The largest length of an array of reports, earnings or estimates.
MaxReports == 2

\* The entries of such an array: no object, an object without a date, and
\* objects with a date and some of the fields the transformers read.
ReportEntries ==
    { JStr("n/a"),
      JObj([f \in {"totalRevenue", "reportedEPS"} |-> JStr("0")]),
      JObj([f \in {"fiscalDateEnding", "date", "horizon", "reportedEPS", "reportedDate",
                   "totalRevenue", "totalAssets", "operatingCashflow"} |->
              IF f \in {"fiscalDateEnding", "date"} THEN JStr("10") ELSE JStr("a")]),
      JObj([f \in {"fiscalDateEnding", "date", "netIncome", "eps_estimate_average"} |->
              IF f \in {"fiscalDateEnding", "date"} THEN JStr("2") ELSE JStr("b")]) }

SeqsUpTo(S, n) == UNION {[1..m -> S] : m \in 0..n}

\* What a response may hold under an array key: nothing, no array, an array.
ArrayValues == {None, JNull, JStr("n/a")} \cup {JArr(q) : q \in SeqsUpTo(ReportEntries, MaxReports)}

SymbolMembers == {None, JStr("IBM")}

FundamentalsJson ==
    {JNull, Overview}
    \cup {ObjOf([symbol |-> s, annualReports |-> a, quarterlyReports |-> q]) :
            s \in SymbolMembers, a \in ArrayValues, q \in ArrayValues}
    \cup {ObjOf([symbol |-> s, annualEarnings |-> a, quarterlyEarnings |-> q]) :
            s \in SymbolMembers, a \in ArrayValues, q \in ArrayValues}
    \cup {ObjOf([symbol |-> s, estimates |-> a]) :
            s \in SymbolMembers \cup {JNull}, a \in ArrayValues}

FundamentalsResponses == {HttpResponse(200, JsonBody(j), None) : j \in FundamentalsJson}

FundamentalsTools ==
    { "company_overview", "earnings", "earnings_estimates", "income_statement",
      "balance_sheet", "cash_flow" }

FundamentalsEnvelopes ==
    {ObjOf([tool |-> JStr(t), params |-> ObjOf([symbol |-> JStr("IBM")])]) :
        t \in FundamentalsTools}

BasicResponses ==
    { Err(Custom("HTTP request failed: connection refused")),
      HttpResponse(200, GarbageBody, None),
      HttpResponse(404, JsonBody(JObj(<<>>)), JStr("req-1")),
      HttpResponse(500, GarbageBody, None) }
    \cup {HttpResponse(200, JsonBody(j), None) : j \in BasicJson}

(***************************************************************************)
(* The state machine of one call.                                          *)
(***************************************************************************)
Init ==
    /\ client \in Clients
    /\ STATIC_INSTANCE = DefaultInstance
    /\ pc = "idle"
    /\ request = None
    /\ sent = <<>>
    /\ response = Pending
    /\ result = Pending

\* call_tool is called with an envelope and runs to its return or to the
\* await of the transport's get.
CallTool(envs) ==
    /\ pc = "idle"
    /\ \E env \in envs :
          LET r == CallToolStart(client, env)
          IN /\ request' = env
             /\ IF r.tag = "Err"
                THEN /\ result' = r
                     /\ pc' = "done"
                     /\ sent' = sent
                ELSE /\ result' = Pending
                     /\ pc' = "awaiting"
                     /\ sent' = Append(sent, r.val)
    /\ UNCHANGED <<client, STATIC_INSTANCE, response>>

\* The transport answers the get; on a failure call_tool asks once more.
TransportRespondRetrying(answers) ==
    /\ pc = "awaiting"
    /\ \E r \in answers :
          IF RawProcess(r).tag = "Err" /\ Len(sent) < 2
          THEN /\ sent' = Append(sent, sent[Len(sent)])
               /\ UNCHANGED <<client, STATIC_INSTANCE, request, pc, response, result>>
          ELSE /\ response' = r
               /\ result' = CallToolFinish(request, r)
               /\ pc' = "done"
               /\ UNCHANGED <<client, STATIC_INSTANCE, request, sent>>

\* The transport answers the get; call_tool runs to its return.
TransportRespond(answers) ==
    /\ pc = "awaiting"
    /\ \E r \in answers :
          /\ response' = r
          /\ result' = CallToolFinish(request, r)
    /\ pc' = "done"
    /\ UNCHANGED <<client, STATIC_INSTANCE, request, sent>>

Next == CallTool(Envelopes) \/ TransportRespond(BasicResponses)

Spec == Init /\ [][Next]_vars

NextTimeSeries == CallTool(TimeSeriesEnvelopes) \/ TransportRespond(TimeSeriesResponses)

SpecTimeSeries == Init /\ [][NextTimeSeries]_vars

NextFundamentals == CallTool(FundamentalsEnvelopes) \/ TransportRespond(FundamentalsResponses)

SpecFundamentals == Init /\ [][NextFundamentals]_vars

(***************************************************************************)
(* Progressive discovery: the catalogue is listed, a tool is looked up, a  *)
(* tool is called.  list_tools and get_tool_details return at once; the    *)
(* argument of the lookup is kept in request and what was returned in      *)
(* result.                                                                 *)
(***************************************************************************)
Returned(val) == [tag |-> "Returned", val |-> val]

ToolIdInputs == KnownTools \cup {"", "foo", "EARNINGS", "Time_Series_Daily", "cash_flow "}

DiscoveryEnvelopes == TimeSeriesEnvelopes \cup FundamentalsEnvelopes

ListTools ==
    /\ pc = "idle"
    /\ request' = None
    /\ result' = Returned(list_tools)
    /\ UNCHANGED <<client, STATIC_INSTANCE, pc, sent, response>>

GetToolDetails(ids) ==
    /\ pc = "idle"
    /\ \E tool_id \in ids :
          /\ request' = JStr(tool_id)
          /\ result' = Returned(get_tool_details(tool_id))
    /\ UNCHANGED <<client, STATIC_INSTANCE, pc, sent, response>>

NextDiscovery ==
    \/ ListTools
    \/ GetToolDetails(ToolIdInputs)
    \/ CallTool(DiscoveryEnvelopes)
    \/ TransportRespond(BasicResponses)

SpecDiscovery == Init /\ [][NextDiscovery]_vars

(***************************************************************************)
(* Every transformer, on responses that differ by the member it takes its  *)
(* metadata from: none, null, no string and no object, the usual one.      *)
(***************************************************************************)
MetadataJson ==
    {JNull}
    \cup {ObjOf([k \in {"Meta Data", key} |-> IF k = key THEN b ELSE m]) :
            m \in {None, JNull, JStr("meta"), MetaData},
            key \in TimeSeriesKeys,
            b \in {None, JObj([d \in {"1"} |-> OhlcvFull])}}
    \cup {ObjOf([k \in {"symbol", key} |-> IF k = key THEN a ELSE s]) :
            s \in {None, JNull, JNum(7), JStr("IBM")},
            key \in {"annualReports", "quarterlyEarnings", "estimates"},
            a \in {None, JArr(<<JObj([f \in {"fiscalDateEnding", "date"} |-> JStr("10")])>>)}}

MetadataResponses == {HttpResponse(200, JsonBody(j), None) : j \in MetadataJson}

NextTransformers == CallTool(DiscoveryEnvelopes) \/ TransportRespond(MetadataResponses)

SpecTransformers == Init /\ [][NextTransformers]_vars

(***************************************************************************)
(* A processor is handed what the transport returned.  request holds the   *)
(* processor, response what it was handed, result what it returned.        *)
(***************************************************************************)
Statuses == {199, 200, 201, 204, 299, 300, 404, 500}

ProcessorBodies ==
    { GarbageBody, JsonBody(JNull), JsonBody(JArr(<<>>)), JsonBody(Overview),
      JsonBody(JObj([k \in {"estimates"} |-> JArr(<<Overview>>)])) }

ProcessorAnswers ==
    {Err(Custom("HTTP request failed: connection refused"))}
    \cup {HttpResponse(status, body, id) :
            status \in Statuses, body \in ProcessorBodies, id \in {None, JStr("req-1")}}

Processors == {[processor |-> "Table", decoder_fn |-> "none"]}
              \cup {[processor |-> "Decoder", decoder_fn |-> f] : f \in DecoderFns}

Process(answers) ==
    /\ pc = "idle"
    /\ \E p \in Processors, r \in answers :
          /\ request' = p
          /\ response' = r
          /\ result' \in (IF p.processor = "Table" THEN TableProcess(r)
                          ELSE DecoderProcess(p.decoder_fn, r))
    /\ pc' = "done"
    /\ UNCHANGED <<client, STATIC_INSTANCE, sent>>

NextProcessors == Process(ProcessorAnswers)

SpecProcessors == Init /\ [][NextProcessors]_vars

(***************************************************************************)
(* Several call_tool invocations against one shared client.  Every         *)
(* invocation is a future with its own locals: pc, request, response and   *)
(* result hold one value for each invocation, and sent, the log of the     *)
(* shared transport, tells which invocation made each request.             *)
(***************************************************************************)
\* The number of invocations.
MaxTasks == 2

Tasks == 1..MaxTasks

DatedReport(date) ==
    JObj([f \in {"fiscalDateEnding", "date", "reportedEPS", "totalRevenue"} |->
            IF f \in {"fiscalDateEnding", "date"} THEN JStr(date) ELSE JStr("a")])

\* A response with the members every one of the ten transformers reads.
UniversalJson ==
    LET block == JObj([d \in {"10", "2"} |-> OhlcvFull])
        reports == JArr(<<DatedReport("10"), DatedReport("2")>>)
    IN JObj([k \in TimeSeriesKeys
                   \cup {"Meta Data", "symbol", "annualReports", "quarterlyReports",
                         "annualEarnings", "quarterlyEarnings", "estimates"} |->
                CASE k \in TimeSeriesKeys -> block
                  [] k = "Meta Data" -> MetaData
                  [] k = "symbol" -> JStr("IBM")
                  [] OTHER -> reports])

ConcurrentEnvelopes ==
    {JNull}
    \cup {ObjOf([tool |-> JStr(t),
                 params |-> ObjOf([symbol |-> JStr("IBM"),
                                   interval |-> IF t = "time_series_intraday"
                                                THEN JStr("5min") ELSE None])]) :
            t \in KnownTools}

ConcurrentResponses ==
    { HttpResponse(200, JsonBody(JObj(<<>>)), None),
      HttpResponse(200, JsonBody(UniversalJson), None) }

InitConcurrent ==
    /\ client \in Clients
    /\ STATIC_INSTANCE = DefaultInstance
    /\ pc = [t \in Tasks |-> "idle"]
    /\ request = [t \in Tasks |-> None]
    /\ sent = <<>>
    /\ response = [t \in Tasks |-> Pending]
    /\ result = [t \in Tasks |-> Pending]

\* One slot for the locals, written by the invocation that asked the
\* transport last.
FrameOfLatest(frames, t) == frames[sent[Len(sent)].task]

\* The locals of invocation t that live across its await.
Frame(frames, t) == frames[t]

\* The invocation that installs the client it is given as the default one.
TaskCallToolInstalling(t, envs) ==
    /\ pc[t] = "idle"
    /\ \E env \in envs :
          LET r == CallToolStart(client, env)
          IN /\ request' = [request EXCEPT ![t] = env]
             /\ IF r.tag = "Err"
                THEN /\ result' = [result EXCEPT ![t] = r]
                     /\ pc' = [pc EXCEPT ![t] = "done"]
                     /\ sent' = sent
                ELSE /\ result' = result
                     /\ pc' = [pc EXCEPT ![t] = "awaiting"]
                     /\ sent' = Append(sent, [task |-> t, url |-> r.val])
    /\ STATIC_INSTANCE' = Arc(t, client)
    /\ UNCHANGED <<client, response>>

\* Invocation t is called with an envelope and runs to its return or to the
\* await of the transport's get.
TaskCallTool(t, envs) ==
    /\ pc[t] = "idle"
    /\ \E env \in envs :
          LET r == CallToolStart(client, env)
          IN /\ request' = [request EXCEPT ![t] = env]
             /\ IF r.tag = "Err"
                THEN /\ result' = [result EXCEPT ![t] = r]
                     /\ pc' = [pc EXCEPT ![t] = "done"]
                     /\ sent' = sent
                ELSE /\ result' = result
                     /\ pc' = [pc EXCEPT ![t] = "awaiting"]
                     /\ sent' = Append(sent, [task |-> t, url |-> r.val])
    /\ UNCHANGED <<client, STATIC_INSTANCE, response>>

\* The transport answers the get of invocation t, which runs to its return.
TaskTransportRespond(t, answers) ==
    /\ pc[t] = "awaiting"
    /\ \E r \in answers :
          /\ response' = [response EXCEPT ![t] = r]
          /\ result' = [result EXCEPT ![t] = CallToolFinish(Frame(request, t), r)]
    /\ pc' = [pc EXCEPT ![t] = "done"]
    /\ UNCHANGED <<client, STATIC_INSTANCE, request, sent>>

NextConcurrent ==
    \E t \in Tasks :
        \/ TaskCallTool(t, ConcurrentEnvelopes)
        \/ TaskTransportRespond(t, ConcurrentResponses)

SpecConcurrent == InitConcurrent /\ [][NextConcurrent]_vars

(***************************************************************************)
(* The process-wide default client.  Threads call initialize, instance and *)
(* call_tool; the request of a thread that calls initialize or instance    *)
(* holds the name of the operation and its argument.                       *)
(***************************************************************************)
\* The swap that hands back the default client instead of the one replaced.
SwapReturningDefault(cell, new) == [cell |-> new, previous |-> DefaultInstance]

\* ArcSwap::swap: the new pointer is stored and the one it replaces is
\* returned, in one atomic step.
Swap(cell, new) == [cell |-> new, previous |-> cell]

\* pub fn initialize(client: AlphaVantage) -> Arc<AlphaVantage>
Initialize(t, clients) ==
    /\ pc[t] = "idle"
    /\ \E cl \in clients :
          LET swapped == Swap(STATIC_INSTANCE, Arc(t, cl))
          IN /\ STATIC_INSTANCE' = swapped.cell
             /\ request' = [request EXCEPT ![t] = [t |-> "initialize", v |-> cl]]
             /\ result' = [result EXCEPT ![t] = Returned(swapped.previous)]
    /\ pc' = [pc EXCEPT ![t] = "done"]
    /\ UNCHANGED <<client, sent, response>>

\* pub fn instance() -> Arc<AlphaVantage> { STATIC_INSTANCE.load().clone() }
Instance(t) ==
    /\ pc[t] = "idle"
    /\ request' = [request EXCEPT ![t] = [t |-> "instance", v |-> ""]]
    /\ result' = [result EXCEPT ![t] = Returned(STATIC_INSTANCE)]
    /\ pc' = [pc EXCEPT ![t] = "done"]
    /\ UNCHANGED <<client, STATIC_INSTANCE, sent, response>>

InstanceEnvelopes ==
    {JNull, ObjOf([tool |-> JStr("time_series_daily"), params |-> ObjOf([symbol |-> JStr("IBM")])])}

NextInstance ==
    \E t \in Tasks :
        \/ TaskCallTool(t, InstanceEnvelopes)
        \/ TaskTransportRespond(t, ConcurrentResponses)
        \/ Initialize(t, Clients)
        \/ Instance(t)

SpecInstance == InitConcurrent /\ [][NextInstance]_vars

(***************************************************************************)
(* Properties.                                                             *)
(***************************************************************************)
HasMember(val, key) == val.t = "object" /\ key \in DOMAIN val.v

HasString(val, key) == HasMember(val, key) /\ val.v[key].t = "string"

TenToolIds ==
    { "time_series_intraday", "time_series_daily", "time_series_weekly",
      "time_series_monthly", "company_overview", "earnings", "earnings_estimates",
      "income_statement", "balance_sheet", "cash_flow" }

\* The call has returned this error without a request to the transport.
FailedUnsent(message) ==
    /\ pc = "done"
    /\ result = Err(Custom(message))
    /\ sent = <<>>

\* The envelope names one of the ten tools and has params.
CalledTool(tool) ==
    /\ pc # "idle"
    /\ HasString(request, "tool")
    /\ request.v["tool"].v = tool
    /\ HasMember(request, "params")

\* C1: an envelope whose tool is absent or no string fails with the
\* missing-'tool' error, one with a string tool and no params with the
\* missing-'params' error; in both cases the call returns an error value and
\* nothing was sent to the transport.
C1_MissingEnvelopeField ==
    pc # "idle" =>
        /\ ~HasString(request, "tool") => FailedUnsent("Missing 'tool' field")
        /\ (HasString(request, "tool") /\ ~HasMember(request, "params")) =>
              FailedUnsent("Missing 'params' field")

C1_Witness ==
    /\ HasMember(request, "tool")
    /\ ~HasString(request, "tool")
    /\ HasMember(request, "params")
    /\ FailedUnsent("Missing 'tool' field")

\* C2: a string tool that is none of the ten ids, with params present, fails
\* with the unknown-tool error naming it, whatever params holds, and nothing
\* was sent to the transport.
C2_UnknownTool ==
    ( /\ pc # "idle"
      /\ HasString(request, "tool")
      /\ HasMember(request, "params")
      /\ request.v["tool"].v \notin TenToolIds ) =>
        FailedUnsent("Unknown tool: " \o request.v["tool"].v)

C2_Witness ==
    /\ CalledTool("EARNINGS")
    /\ HasString(request.v["params"], "symbol")
    /\ FailedUnsent("Unknown tool: EARNINGS")

\* C3: for each of the ten tools, params without a string symbol fail with the
\* missing-'symbol' error and nothing was sent; for time_series_intraday with
\* a string symbol, an absent or non-string interval fails with the
\* missing-'interval' error and nothing was sent.
C3_MissingRequiredParam ==
    \A tool \in TenToolIds :
        CalledTool(tool) =>
            LET params == request.v["params"]
            IN /\ ~HasString(params, "symbol") =>
                      FailedUnsent("Missing 'symbol' parameter")
               /\ ( /\ tool = "time_series_intraday"
                    /\ HasString(params, "symbol")
                    /\ ~HasString(params, "interval") ) =>
                      FailedUnsent("Missing 'interval' parameter")

C3_Witness ==
    /\ CalledTool("time_series_intraday")
    /\ HasString(request.v["params"], "symbol")
    /\ HasMember(request.v["params"], "interval")
    /\ ~HasString(request.v["params"], "interval")
    /\ FailedUnsent("Missing 'interval' parameter")

FiveIntervalTokens == {"1min", "5min", "15min", "30min", "60min"}

\* The URL of an intraday request with interval=token, followed by rest.
IntradayUrl(symbol, token, rest) ==
    "https://www.alphavantage.co/query?function=TIME_SERIES_INTRADAY&symbol=" \o symbol
        \o "&interval=" \o token \o "&apikey=demo" \o rest

IntradayUrls(symbol, token) ==
    {IntradayUrl(symbol, token, rest) : rest \in {"", "&outputsize=compact", "&outputsize=full"}}

DailyUrl(symbol, rest) ==
    "https://www.alphavantage.co/query?function=TIME_SERIES_DAILY&symbol=" \o symbol
        \o "&apikey=demo" \o rest

\* C4: time_series_intraday with a string interval that is not exactly one of
\* the five tokens fails with the invalid-interval error carrying the value,
\* and nothing was sent; each of the five tokens is accepted, and it is the
\* interval of the request that is sent.
C4_IntervalValidation ==
    ( /\ CalledTool("time_series_intraday")
      /\ HasString(request.v["params"], "symbol")
      /\ HasString(request.v["params"], "interval") ) =>
        LET params == request.v["params"]
            interval == params.v["interval"].v
        IN /\ interval \notin FiveIntervalTokens =>
                  FailedUnsent("Invalid interval: " \o interval)
           /\ interval \in FiveIntervalTokens =>
                  /\ result # Err(Custom("Invalid interval: " \o interval))
                  /\ result # Err(Custom("Missing 'interval' parameter"))
                  /\ (~HasMember(params, "outputsize") /\ IsSome(client.api_key)) =>
                        Len(sent) = 1
                  /\ \A i \in 1..Len(sent) :
                        sent[i] \in IntradayUrls(params.v["symbol"].v, interval)

C4_Witness ==
    /\ CalledTool("time_series_intraday")
    /\ HasString(request.v["params"], "symbol")
    /\ HasString(request.v["params"], "interval")
    /\ request.v["params"].v["interval"].v = "5MIN"
    /\ FailedUnsent("Invalid interval: 5MIN")

\* The text of an outputsize value in the invalid-outputsize error.
OutputSizeText(val) ==
    CASE val.t = "string" -> val.v
      [] val.t = "null" -> "null"
      [] val = JNum(100) -> "100"

\* The call got past the parameters read before outputsize.
ReachesOutputSize ==
    /\ \/ /\ CalledTool("time_series_intraday")
          /\ HasString(request.v["params"], "interval")
          /\ request.v["params"].v["interval"].v \in FiveIntervalTokens
       \/ CalledTool("time_series_daily")
    /\ HasString(request.v["params"], "symbol")

\* C5: for time_series_intraday and time_series_daily, an outputsize that is
\* present and is anything but the string compact or the string full, a
\* number or null included, fails with the invalid-outputsize error and
\* nothing was sent; with outputsize absent the call goes on and its request
\* carries no outputsize.
C5_OutputSizeValidation ==
    ReachesOutputSize =>
        LET params == request.v["params"]
        IN /\ ( /\ HasMember(params, "outputsize")
                /\ params.v["outputsize"] \notin {JStr("compact"), JStr("full")} ) =>
                  FailedUnsent("Invalid outputsize: " \o OutputSizeText(params.v["outputsize"]))
           /\ ~HasMember(params, "outputsize") =>
                  /\ IsSome(client.api_key) => Len(sent) = 1
                  /\ \A i \in 1..Len(sent) :
                        sent[i] \in {DailyUrl(params.v["symbol"].v, "")}
                            \cup {IntradayUrl(params.v["symbol"].v, t, "") : t \in FiveIntervalTokens}

\* The response the transport delivered with status 200 and a JSON body.
Delivered ==
    /\ pc = "done"
    /\ response.tag = "Ok"
    /\ response.val.status = 200
    /\ response.val.body.text = "json"

\* C6: every successful result of call_tool is the DataFrame variant and its
\* data is a JSON array whose elements are row objects.
C6_DataFrameOfRowObjects ==
    (pc = "done" /\ result.tag = "Ok") =>
        /\ result.val.variant = "DataFrame"
        /\ result.val.data.t = "array"
        /\ \A i \in 1..Len(result.val.data.v) : result.val.data.v[i].t = "object"

\* C7: on success the data of the result is the vendor response object
\* itself, so that the vendor's top-level keys are read from it by data.get.
C7_DataIsVendorResponse ==
    (Delivered /\ result.tag = "Ok" /\ response.val.body.json.t = "object") =>
        /\ result.val.data.t = "object"
        /\ \A key \in DOMAIN response.val.body.json.v :
              Get(result.val.data, key) = response.val.body.json.v[key]

TimeSeriesTools ==
    {"time_series_intraday", "time_series_daily", "time_series_weekly", "time_series_monthly"}

\* The date column of a time-series tool.
DateColumn(tool) ==
    CASE tool = "time_series_intraday" -> "timestamp"
      [] tool = "time_series_daily" -> "date"
      [] tool = "time_series_weekly" -> "week_ending"
      [] tool = "time_series_monthly" -> "month"

\* The key of the block a time-series call reads.
BlockKey(req) ==
    CASE req.v["tool"].v = "time_series_intraday" ->
            "Time Series (" \o req.v["params"].v["interval"].v \o ")"
      [] req.v["tool"].v = "time_series_daily" -> "Time Series (Daily)"
      [] req.v["tool"].v = "time_series_weekly" -> "Weekly Time Series"
      [] req.v["tool"].v = "time_series_monthly" -> "Monthly Time Series"

\* A time-series call whose transformer ran and succeeded.
TimeSeriesSucceeded ==
    /\ Delivered
    /\ request.v["tool"].v \in TimeSeriesTools
    /\ result.tag = "Ok"

VendorField(col) ==
    CASE col = "open" -> "1. open"
      [] col = "high" -> "2. high"
      [] col = "low" -> "3. low"
      [] col = "close" -> "4. close"
      [] col = "volume" -> "5. volume"

\* C8: a time-series transformer that succeeds declares exactly the six
\* columns date column, open, high, low, close, volume in this order, the date
\* column named timestamp, date, week_ending or month, and every row has
\* exactly these six keys, with null for each of the five fields its entry
\* omits (and the entry's value for the others).
C8_TimeSeriesSchemaAndRows ==
    TimeSeriesSucceeded =>
        LET dateCol == DateColumn(request.v["tool"].v)
            block == response.val.body.json.v[BlockKey(request)]
            rows == result.val.data.v
            schema == result.val.schema
        IN /\ [i \in 1..Len(schema) |-> schema[i].name]
                = <<dateCol, "open", "high", "low", "close", "volume">>
           /\ \A i \in 1..Len(rows) :
                /\ rows[i].t = "object"
                /\ DOMAIN rows[i].v = {dateCol, "open", "high", "low", "close", "volume"}
                /\ rows[i].v[dateCol].t = "string"
                /\ LET entry == block.v[rows[i].v[dateCol].v]
                   IN \A col \in {"open", "high", "low", "close", "volume"} :
                        rows[i].v[col] = IF VendorField(col) \in DOMAIN entry.v
                                         THEN entry.v[VendorField(col)]
                                         ELSE JNull

C8_Witness ==
    /\ TimeSeriesSucceeded
    /\ request.v["tool"].v = "time_series_weekly"
    /\ Len(result.val.data.v) = 2
    /\ \E i \in 1..2 :
          /\ result.val.data.v[i].v["open"] = JStr("1.5")
          /\ result.val.data.v[i].v["volume"] = JNull

\* C9: the rows of a time-series transformer are ordered most recent first:
\* of two adjacent rows the first one's date column is lexicographically
\* greater than or equal to the second one's.
C9_TimeSeriesDescending ==
    TimeSeriesSucceeded =>
        LET dateCol == DateColumn(request.v["tool"].v)
            rows == result.val.data.v
        IN \A i \in 1..(Len(rows) - 1) :
              SeqCmp(Chars(rows[i].v[dateCol].v), Chars(rows[i + 1].v[dateCol].v)) >= 0

C9_Witness ==
    /\ TimeSeriesSucceeded
    /\ request.v["tool"].v = "time_series_monthly"
    /\ Len(result.val.data.v) = 2
    /\ result.val.data.v[1].v["month"] = JStr("2")
    /\ result.val.data.v[2].v["month"] = JStr("10")

\* The transformer of a time-series call ran: the response was parsed.
TimeSeriesTransformed ==
    /\ Delivered
    /\ request.v["tool"].v \in TimeSeriesTools

NoBlockError == Err(Custom("No '" \o BlockKey(request) \o "' data found in response"))

\* C10 as claimed: a time-series transformer fails if and only if its block
\* key is absent from the response, with the error that names the key, and
\* succeeds whenever the key is present, whatever its value.
C10_FailsIffKeyAbsent ==
    TimeSeriesTransformed =>
        /\ ~HasMember(response.val.body.json, BlockKey(request)) => result = NoBlockError
        /\ HasMember(response.val.body.json, BlockKey(request)) => result.tag = "Ok"

\* C10 as amended: a time-series transformer fails if and only if its block
\* key is absent from the response or its value is not a JSON object, with
\* the error that names the key, and succeeds whenever the key holds an
\* object, whatever the object's entries.
C10_FailsIffNoObjectBlock ==
    TimeSeriesTransformed =>
        LET json == response.val.body.json
            key == BlockKey(request)
        IN /\ (~HasMember(json, key) \/ json.v[key].t # "object") => result = NoBlockError
           /\ (HasMember(json, key) /\ json.v[key].t = "object") => result.tag = "Ok"

C10_Witness ==
    /\ TimeSeriesTransformed
    /\ HasMember(response.val.body.json, BlockKey(request))
    /\ response.val.body.json.v[BlockKey(request)] = JArr(<<>>)
    /\ result = NoBlockError

(***************************************************************************)
(* The fundamentals transformers.                                          *)
(***************************************************************************)
StatementTools == {"income_statement", "balance_sheet", "cash_flow"}

\* The transformer of a fundamentals call ran on the parsed response.
FundamentalsTransformed(tools) ==
    /\ Delivered
    /\ request.v["tool"].v \in tools

\* The length of the array a response holds under a key, 0 without an array.
ArrayLen(val, key) ==
    IF HasMember(val, key) /\ val.v[key].t = "array" THEN Len(val.v[key].v) ELSE 0

\* The number of rows of the result tagged with a period type.
RowsOfPeriod(period) ==
    Cardinality({i \in 1..Len(result.val.data.v) :
                    /\ HasMember(result.val.data.v[i], "period_type")
                    /\ result.val.data.v[i].v["period_type"] = JStr(period)})

\* C11: income_statement, balance_sheet and cash_flow return, for every parsed
\* response, as many rows as annualReports and quarterlyReports have entries
\* together (an absent array counts 0, an entry of any shape counts 1), and
\* the rows tagged annual and quarterly are as many as the entries of the
\* array they come from.
C11_StatementRowCount ==
    FundamentalsTransformed(StatementTools) =>
        LET json == response.val.body.json
        IN /\ result.tag = "Ok"
           /\ Len(result.val.data.v) = ArrayLen(json, "annualReports") + ArrayLen(json, "quarterlyReports")
           /\ RowsOfPeriod("annual") = ArrayLen(json, "annualReports")
           /\ RowsOfPeriod("quarterly") = ArrayLen(json, "quarterlyReports")

\* A statement whose annual array holds an entry that is no object and whose
\* quarterly array is absent gave one annual row.
C11_Witness ==
    /\ FundamentalsTransformed(StatementTools)
    /\ ArrayLen(response.val.body.json, "annualReports") = 2
    /\ response.val.body.json.v["annualReports"].v[1] = JStr("n/a")
    /\ ~HasMember(response.val.body.json, "quarterlyReports")
    /\ result.tag = "Ok"
    /\ Len(result.val.data.v) = 2
    /\ RowsOfPeriod("annual") = 2

EarningsKeys ==
    { "period_type", "fiscal_date_ending", "reported_eps", "reported_date",
      "estimated_eps", "surprise", "surprise_percentage" }

\* C12: every row of the earnings transformer, annual or quarterly, has
\* exactly the seven keys of the earnings schema; an annual row holds null
\* under the four quarterly-only keys.
C12_EarningsRowsShareKeys ==
    (FundamentalsTransformed({"earnings"}) /\ result.tag = "Ok") =>
        \A i \in 1..Len(result.val.data.v) :
            LET row == result.val.data.v[i]
            IN /\ DOMAIN row.v = EarningsKeys
               /\ row.v["period_type"] = JStr("annual") =>
                     \A k \in {"reported_date", "estimated_eps", "surprise", "surprise_percentage"} :
                         row.v[k] = JNull

EstimatesColumns ==
    << "date", "horizon", "eps_estimate_average", "eps_estimate_high", "eps_estimate_low",
       "eps_estimate_analyst_count", "revenue_estimate_average", "revenue_estimate_high",
       "revenue_estimate_low", "revenue_estimate_analyst_count" >>

\* C13: the earnings_estimates transformer never fails; without an estimates
\* array, or with an empty one, it returns no row and the ten-column schema;
\* its metadata is {symbol: value} exactly when the response has a symbol key.
C13_EstimatesNeverFail ==
    FundamentalsTransformed({"earnings_estimates"}) =>
        LET json == response.val.body.json
        IN /\ result.tag = "Ok"
           /\ [i \in 1..Len(result.val.schema) |-> result.val.schema[i].name] = EstimatesColumns
           /\ ArrayLen(json, "estimates") = 0 => result.val.data = JArr(<<>>)
           /\ IF HasMember(json, "symbol")
              THEN result.val.metadata = JObj([k \in {"symbol"} |-> json.v["symbol"]])
              ELSE result.val.metadata = None

\* A response with a symbol and an estimates member that is no array gave no
\* row and the symbol as metadata.
C13_Witness ==
    /\ FundamentalsTransformed({"earnings_estimates"})
    /\ HasMember(response.val.body.json, "estimates")
    /\ response.val.body.json.v["estimates"] = JStr("n/a")
    /\ result.tag = "Ok"
    /\ result.val.data = JArr(<<>>)
    /\ result.val.metadata = JObj([k \in {"symbol"} |-> JStr("IBM")])

(***************************************************************************)
(* The tool catalogue.                                                     *)
(***************************************************************************)
\* get_tool_details has just returned.
LookedUp == pc = "idle" /\ request.t = "string" /\ result.tag = "Returned"

\* list_tools has just returned.
Listed == pc = "idle" /\ request = None /\ result.tag = "Returned"

\* C15: get_tool_details(id) returns a descriptor whose id is id for each of
\* the ten tool ids and none for every other string, a case variant and the
\* empty string included.
C15_GetToolDetails ==
    LookedUp =>
        IF request.v \in TenToolIds
        THEN result.val.t = "some" /\ result.val.v.id = request.v
        ELSE result.val = None

\* An upper-case variant of a tool id was looked up and none came back.
C15_Witness ==
    /\ LookedUp
    /\ request.v = "EARNINGS"
    /\ result.val = None

\* C16: list_tools returns ten descriptors of pairwise distinct ids, on every
\* call in the one order: intraday, daily, weekly, monthly, then
\* company_overview, earnings, earnings_estimates, income_statement,
\* balance_sheet, cash_flow.
C16_ListToolsOrder ==
    Listed =>
        /\ Len(result.val) = 10
        /\ \A i, j \in 1..Len(result.val) : result.val[i].id = result.val[j].id => i = j
        /\ [i \in 1..Len(result.val) |-> result.val[i].id] =
              << "time_series_intraday", "time_series_daily", "time_series_weekly",
                 "time_series_monthly", "company_overview", "earnings", "earnings_estimates",
                 "income_statement", "balance_sheet", "cash_flow" >>

\* The catalogue was listed and its fifth descriptor is the first fundamentals tool.
C16_Witness ==
    /\ Listed
    /\ Len(result.val) = 10
    /\ result.val[5].id = "company_overview"

(***************************************************************************)
(* The API key.                                                            *)
(***************************************************************************)
\* The envelope passes every validation call_tool makes before the builder's
\* get: a known tool, a string symbol, for intraday one of the five interval
\* tokens, and no string outputsize other than compact and full.
ValidEnvelope ==
    /\ HasString(request, "tool")
    /\ request.v["tool"].v \in TenToolIds
    /\ HasMember(request, "params")
    /\ HasString(request.v["params"], "symbol")
    /\ request.v["tool"].v = "time_series_intraday" =>
          /\ HasString(request.v["params"], "interval")
          /\ request.v["params"].v["interval"].v \in FiveIntervalTokens
    /\ ( /\ request.v["tool"].v \in {"time_series_intraday", "time_series_daily"}
         /\ HasString(request.v["params"], "outputsize") ) =>
          request.v["params"].v["outputsize"].v \in {"compact", "full"}

ApiErrorOf(resp) ==
    Err([kind |-> "ApiError", request_id |-> resp.request_id,
         status |-> resp.status, message |-> resp.body])

\* C19: a Table or Decoder processor fails with the API error carrying the
\* response's status, body and request id exactly when the status is not a
\* 2xx status; a response of any 2xx status is never rejected for its
\* status, and an error of the transport is passed through unchanged.
C19_RejectsExactlyNon2xx ==
    pc = "done" =>
        IF response.tag = "Err" THEN result = response
        ELSE (result = ApiErrorOf(response.val))
                <=> (response.val.status < 200 \/ response.val.status > 299)

(***************************************************************************)
(* Determinism, requests made and concurrent invocations.                  *)
(***************************************************************************)
\* The transformer of invocation t ran on the parsed response.
TaskTransformed(t) ==
    /\ pc[t] = "done"
    /\ response[t].tag = "Ok"
    /\ response[t].val.status = 200
    /\ response[t].val.body.text = "json"

C17_ExactlyOneRequest == pc = "done" => Len(sent) = 1

\* C17: a call_tool invocation makes at most one request to the transport:
\* exactly one when its envelope passes validation and the API key is set,
\* none otherwise; when the transport fails or answers with an error status
\* the failure is returned and no other request is made.
C17_AtMostOneRequestNoRetry ==
    /\ Len(sent) <= 1
    /\ pc = "awaiting" => Len(sent) = 1
    /\ pc = "done" =>
          /\ Len(sent) = 1 <=> (ValidEnvelope /\ IsSome(client.api_key))
          /\ Len(sent) = 1 <=> response # Pending
          /\ (response # Pending /\ response.tag = "Err") => result = response
          /\ (response # Pending /\ response.tag = "Ok" /\ response.val.status >= 300) =>
                (result.tag = "Err" /\ result.err.kind = "ApiError")

\* The transport refused the connection: the failure was returned and one
\* request had been made.
C17_Witness ==
    /\ pc = "done"
    /\ response = Err(Custom("HTTP request failed: connection refused"))
    /\ result = response
    /\ Len(sent) = 1

\* What an invocation returns when it runs alone with this envelope and
\* this answer to its request.
Alone(cl, req, resp) ==
    LET start == CallToolStart(cl, req)
    IN IF start.tag = "Err" THEN start ELSE CallToolFinish(req, resp)

\* C20: with several invocations running concurrently against one client,
\* under every interleaving of their awaits, each result is the one the
\* invocation gives alone from its own envelope and the answer to its own
\* request, and the shared client is never written.
C20_Isolation ==
    /\ [](\A t \in Tasks : pc[t] = "done" => result[t] = Alone(client, request[t], response[t]))
    /\ [][client' = client]_vars

\* Invocation 1 asked first and still awaits its answer while invocation 2,
\* which asked after it for another tool, has returned its rows.
C20_Witness ==
    /\ Len(sent) = 2
    /\ sent[1].task = 1 /\ sent[2].task = 2
    /\ pc[1] = "awaiting"
    /\ pc[2] = "done"
    /\ request[1] # request[2]
    /\ result[2].tag = "Ok"
    /\ result[2] = Alone(client, request[2], response[2])

(***************************************************************************)
(* The process-wide default client.                                        *)
(***************************************************************************)
\* Thread t takes the step in which it calls initialize.
InitializeStep(t) ==
    /\ pc[t] = "idle"
    /\ pc'[t] = "done"
    /\ request'[t].t = "initialize"

\* Thread t takes the step in which it calls instance.
InstanceStep(t) ==
    /\ pc[t] = "idle"
    /\ pc'[t] = "done"
    /\ request'[t].t = "instance"

\* C21: no call_tool invocation, at whatever stage it succeeds or fails,
\* changes process-wide state: the client it is given keeps its API key and
\* instance() keeps returning the same default client; a step that changes
\* the default client is a call of initialize.
C21_CallToolFrame ==
    [][ /\ client' = client
        /\ STATIC_INSTANCE' # STATIC_INSTANCE => \E t \in Tasks : InitializeStep(t) ]_vars

\* One invocation failed on its envelope, another got its rows, and the
\* default client is still the one the process started with.
C21_Witness ==
    /\ pc[1] = "done" /\ request[1] = JNull /\ result[1].tag = "Err"
    /\ pc[2] = "done" /\ request[2].t = "object" /\ result[2].tag = "Ok"
    /\ STATIC_INSTANCE = DefaultInstance

\* The threads whose call of initialize has returned.
Initialized == {t \in Tasks : pc[t] = "done" /\ request[t].t = "initialize"}

\* The clients the process has had as its default one.
Installed == {DefaultInstance} \cup {[id |-> t, api_key |-> request[t].v.api_key] : t \in Initialized}

\* C30: the default client is an atomic swappable register: it is a client
\* without a key until initialize is called; initialize installs its
\* argument and returns the client it replaced; instance returns the client
\* installed last; a handle a thread holds stays the same client with the
\* same key through later calls of initialize; and no installed client is
\* returned as the previous one by two calls of initialize.
C30_AtomicRegister ==
    /\ [](Initialized = {} => STATIC_INSTANCE = [id |-> 0, api_key |-> None])
    /\ [](\A t, u \in Initialized : result[t].val = result[u].val => t = u)
    /\ [](Installed \ {result[t].val : t \in Initialized} = {STATIC_INSTANCE})
    /\ [][\A t \in Tasks :
            /\ InitializeStep(t) =>
                  /\ result'[t].val = STATIC_INSTANCE
                  /\ STATIC_INSTANCE' = [id |-> t, api_key |-> request'[t].v.api_key]
            /\ InstanceStep(t) =>
                  /\ result'[t].val = STATIC_INSTANCE
                  /\ STATIC_INSTANCE' = STATIC_INSTANCE
            /\ pc[t] = "done" => result'[t] = result[t]]_vars

\* Thread 1 holds the handle instance() gave it, the keyless default client,
\* after thread 2 has installed a client with a key and got the default
\* client back.
C30_Witness ==
    /\ pc[1] = "done" /\ request[1].t = "instance"
    /\ result[1].val = DefaultInstance
    /\ pc[2] = "done" /\ request[2].t = "initialize"
    /\ result[2].val = DefaultInstance
    /\ STATIC_INSTANCE = [id |-> 2, api_key |-> JStr("demo")]

(***************************************************************************)
(* The order of the stages of call_tool.                                   *)
(***************************************************************************)
\* The message of the first stage before the transport that the envelope
\* and the client fail, in the order tool, params, tool id, symbol, interval
\* present, interval valid, outputsize, API key; "" when they pass them all.
FirstValidationError ==
    IF ~HasString(request, "tool") THEN "Missing 'tool' field"
    ELSE IF ~HasMember(request, "params") THEN "Missing 'params' field"
    ELSE LET tool == request.v["tool"].v
             params == request.v["params"]
         IN IF tool \notin TenToolIds THEN "Unknown tool: " \o tool
            ELSE IF ~HasString(params, "symbol") THEN "Missing 'symbol' parameter"
            ELSE IF tool = "time_series_intraday" /\ ~HasString(params, "interval")
                 THEN "Missing 'interval' parameter"
            ELSE IF tool = "time_series_intraday" /\ params.v["interval"].v \notin FiveIntervalTokens
                 THEN "Invalid interval: " \o params.v["interval"].v
            ELSE IF /\ tool \in {"time_series_intraday", "time_series_daily"}
                    /\ HasString(params, "outputsize")
                    /\ params.v["outputsize"].v \notin {"compact", "full"}
                 THEN "Invalid outputsize: " \o params.v["outputsize"].v
            ELSE IF ~IsSome(client.api_key) THEN "API key not set"
            ELSE ""

\* The transformer of the call finds what it requires in the parsed response.
TransformPasses ==
    request.v["tool"].v \in TimeSeriesTools =>
        /\ HasMember(response.val.body.json, BlockKey(request))
        /\ response.val.body.json.v[BlockKey(request)].t = "object"

\* C22: call_tool returns the error of the first stage that fails, in the
\* order tool, params, tool id, symbol, interval present then valid,
\* outputsize, API key, transport and status, JSON parse, transform; a
\* failure before the transport leaves no request sent, and a response that
\* failed or does not parse is given to no transformer.
C22_EarliestFailingStage ==
    pc # "idle" =>
        IF FirstValidationError # "" THEN FailedUnsent(FirstValidationError)
        ELSE /\ Len(sent) = 1
             /\ pc = "done" =>
                   IF response.tag = "Err" THEN result = response
                   ELSE IF response.val.status < 200 \/ response.val.status > 299
                        THEN result.tag = "Err" /\ result.err.kind = "ApiError"
                   ELSE IF response.val.body.text # "json"
                        THEN /\ result.tag = "Err"
                             /\ result.err.kind = "Custom"
                             /\ result.err.message =
                                   "Failed to parse response: expected value at line 1 column 1"
                   ELSE IF ~TransformPasses THEN result = NoBlockError
                   ELSE result.tag = "Ok"

\* An intraday call whose interval and outputsize are both invalid failed on
\* the interval.
C22_Witness ==
    /\ CalledTool("time_series_intraday")
    /\ HasString(request.v["params"], "symbol")
    /\ HasString(request.v["params"], "interval")
    /\ request.v["params"].v["interval"].v = "2min"
    /\ HasString(request.v["params"], "outputsize")
    /\ request.v["params"].v["outputsize"].v = "medium"
    /\ ~IsSome(client.api_key)
    /\ FailedUnsent("Invalid interval: 2min")

(***************************************************************************)
(* Rows of the time-series blocks, the company overview, the horizon.      *)
(***************************************************************************)
\* C23: a time-series transformer that succeeds returns as many rows as its
\* block has entries: every date key of the block is the date column of
\* exactly one row, whatever the shape of the entry's value.
C23_OneRowPerEntry ==
    TimeSeriesSucceeded =>
        LET block == response.val.body.json.v[BlockKey(request)].v
            rows == result.val.data.v
            column == DateColumn(request.v["tool"].v)
        IN /\ Len(rows) = Cardinality(DOMAIN block)
           /\ \A date \in DOMAIN block :
                 Cardinality({i \in 1..Len(rows) : rows[i].v[column] = JStr(date)}) = 1

OverviewColumns ==
    << "Symbol", "Name", "AssetType", "Exchange", "Currency", "Country", "Sector", "Industry",
       "MarketCapitalization", "EBITDA", "PERatio", "PEGRatio", "BookValue", "DividendPerShare",
       "DividendYield", "EPS", "RevenuePerShareTTM", "ProfitMargin", "OperatingMarginTTM",
       "ReturnOnAssetsTTM", "ReturnOnEquityTTM", "RevenueTTM", "GrossProfitTTM" >>

\* C26: the company_overview transformer never fails and returns, for every
\* parsed response, one row that is the whole response, no metadata and the
\* one declared schema; every column name of the schema is a key of the row.
C26_OverviewSingleRow ==
    FundamentalsTransformed({"company_overview"}) =>
        /\ result.tag = "Ok"
        /\ result.val.data = JArr(<<response.val.body.json>>)
        /\ result.val.metadata = None
        /\ [i \in 1..Len(result.val.schema) |-> result.val.schema[i].name] = OverviewColumns
        /\ \A i \in 1..Len(result.val.schema) :
              HasMember(result.val.data.v[1], result.val.schema[i].name)

\* The URL of an earnings_estimates request with this text after the key.
EstimatesUrl(symbol, rest) ==
    "https://www.alphavantage.co/query?function=EARNINGS_ESTIMATES&symbol=" \o symbol
        \o "&apikey=" \o client.api_key.v \o rest

\* C27: for earnings_estimates a string horizon is sent as it is as the
\* horizon parameter of the request, listed in the catalogue or not, and
\* causes no validation error; without a horizon no horizon parameter is
\* sent.
C27_HorizonVerbatim ==
    ( /\ CalledTool("earnings_estimates")
      /\ HasString(request.v["params"], "symbol")
      /\ IsSome(client.api_key) ) =>
        LET params == request.v["params"]
        IN /\ HasString(params, "horizon") =>
                 sent = <<EstimatesUrl(params.v["symbol"].v, "&horizon=" \o params.v["horizon"].v)>>
           /\ ~HasMember(params, "horizon") =>
                 sent = <<EstimatesUrl(params.v["symbol"].v, "")>>

\* A horizon the catalogue does not list went out in the request.
C27_Witness ==
    /\ CalledTool("earnings_estimates")
    /\ IsSome(client.api_key)
    /\ HasString(request.v["params"], "horizon")
    /\ request.v["params"].v["horizon"].v = "next_year"
    /\ sent = <<EstimatesUrl("IBM", "&horizon=next_year")>>

(***************************************************************************)
(* The order of the rows of earnings and of the statements.                *)
(***************************************************************************)
ReportTools == {"earnings", "income_statement", "balance_sheet", "cash_flow"}

\* The rows in the order they are met: the annual ones, then the quarterly
\* ones, each in the order of its array.
EncounterRows ==
    LET json == response.val.body.json
        tool == request.v["tool"].v
        fields == CASE tool = "income_statement" -> IncomeStatementFields
                    [] tool = "balance_sheet" -> BalanceSheetFields
                    [] tool = "cash_flow" -> CashFlowFields
                    [] OTHER -> <<>>
    IN IF tool = "earnings"
       THEN ReportRows(json, "annualEarnings", "annual", EarningsAnnualFields)
            \o ReportRows(json, "quarterlyEarnings", "quarterly", EarningsQuarterlyFields)
       ELSE ReportRows(json, "annualReports", "annual", fields)
            \o ReportRows(json, "quarterlyReports", "quarterly", fields)

\* The string a row is sorted by.
FiscalDate(row) == SortKey(row, "fiscal_date_ending")

\* The rows of a sequence that are sorted by this string.
RowsDated(rows, date) == SelectSeq(rows, LAMBDA row : FiscalDate(row) = date)

\* C24: earnings, income_statement, balance_sheet and cash_flow return the
\* annual rows followed by the quarterly rows, stably sorted by
\* fiscal_date_ending descending as strings: the dates never increase along
\* the output and the rows of one date are in the order they were met.
C24_StableDescendingReports ==
    FundamentalsTransformed(ReportTools) =>
        LET rows == result.val.data.v
        IN /\ result.tag = "Ok"
           /\ Len(rows) = Len(EncounterRows)
           /\ \A i, j \in 1..Len(rows) :
                 i < j => StrCmp(FiscalDate(rows[i]), FiscalDate(rows[j])) >= 0
           /\ \A date \in DateStrings : RowsDated(rows, date) = RowsDated(EncounterRows, date)

\* A later quarterly report came first and, of the two reports of one date,
\* the annual one came before the quarterly one.
C24_Witness ==
    /\ FundamentalsTransformed({"income_statement"})
    /\ result.tag = "Ok"
    /\ Len(result.val.data.v) = 3
    /\ result.val.data.v[1].v["fiscal_date_ending"] = JStr("2")
    /\ result.val.data.v[1].v["period_type"] = JStr("quarterly")
    /\ result.val.data.v[2].v["fiscal_date_ending"] = JStr("10")
    /\ result.val.data.v[2].v["period_type"] = JStr("annual")
    /\ result.val.data.v[3].v["fiscal_date_ending"] = JStr("10")
    /\ result.val.data.v[3].v["period_type"] = JStr("quarterly")

(***************************************************************************)
(* The metadata of a frame.                                                *)
(***************************************************************************)
\* The member of the response, none when the response has no such member.
MemberOrNone(key) ==
    LET json == response.val.body.json
    IN IF HasMember(json, key) THEN json.v[key] ELSE None

\* C25: metadata is optional.  A time-series transformer returns the
\* response's 'Meta Data' member when there is one and none otherwise, and
\* fails for the lack of its block only, never for the lack of 'Meta Data';
\* earnings, income_statement, balance_sheet and cash_flow return the
\* object {symbol: value} exactly when the response has a member symbol, and
\* none otherwise.
C25_OptionalMetadata ==
    /\ TimeSeriesTransformed =>
          /\ result.tag = "Ok" => result.val.metadata = MemberOrNone("Meta Data")
          /\ result.tag = "Ok" <=> MemberOrNone(BlockKey(request)).t = "object"
          /\ result.tag = "Err" => result = NoBlockError
    /\ FundamentalsTransformed(ReportTools) =>
          /\ result.tag = "Ok"
          /\ result.val.metadata =
                IF HasMember(response.val.body.json, "symbol")
                THEN JObj([k \in {"symbol"} |-> response.val.body.json.v["symbol"]])
                ELSE None

\* A response without 'Meta Data' gave a frame of one row and no metadata.
C25_Witness ==
    /\ TimeSeriesSucceeded
    /\ ~HasMember(response.val.body.json, "Meta Data")
    /\ result.val.metadata = None
    /\ Len(result.val.data.v) = 1

(***************************************************************************)
(* The catalogue against the dispatcher.                                   *)
(***************************************************************************)
ListedIds == {list_tools[i].id : i \in 1..Len(list_tools)}

\* The schema of the descriptor list_tools has for a tool.
ListedSchema(tool) ==
    list_tools[CHOOSE i \in 1..Len(list_tools) : list_tools[i].id = tool].schema

MissingParameter(p) == Err(Custom("Missing '" \o p \o "' parameter"))

\* call_tool has returned for an envelope with a string tool and params.
Dispatched ==
    /\ pc = "done"
    /\ HasString(request, "tool")
    /\ HasMember(request, "params")

\* C28: the catalogue and the dispatcher agree.  The ids list_tools returns
\* are the tools call_tool does not reject as unknown, and the required list
\* of a tool's schema holds the parameters whose absence makes call_tool fail
\* with the missing-parameter error: a required parameter that is absent
\* while the other required ones are given fails the call with its own
\* error before a request is sent, and no call fails for the lack of a
\* parameter that is not required.
C28_CatalogMatchesDispatcher ==
    Dispatched =>
        LET tool == request.v["tool"].v
            params == request.v["params"]
            required == {ListedSchema(tool).required[i] :
                           i \in 1..Len(ListedSchema(tool).required)}
            properties == DOMAIN ListedSchema(tool).properties
        IN /\ tool \in ListedIds <=> result # Err(Custom("Unknown tool: " \o tool))
           /\ tool \in ListedIds =>
                 /\ required \subseteq properties
                 /\ \A p \in properties :
                       result = MissingParameter(p) => p \in required /\ ~HasString(params, p)
                 /\ \A p \in required :
                       ~HasMember(params, p) =>
                          \E q \in required : result = MissingParameter(q) /\ sent = <<>>
                 /\ \A p \in required :
                       /\ ~HasMember(params, p)
                       /\ \A q \in required \ {p} : HasString(params, q)
                       => result = MissingParameter(p)

\* An intraday call with a symbol and no interval failed for the interval.
C28_Witness ==
    /\ Dispatched
    /\ request.v["tool"].v = "time_series_intraday"
    /\ HasString(request.v["params"], "symbol")
    /\ ~HasMember(request.v["params"], "interval")
    /\ result = MissingParameter("interval")
    /\ sent = <<>>

(***************************************************************************)
(* The query of the URL, read the way the vendor's server reads it: the    *)
(* text after '?' is cut at every '&' and each piece at its first '='.     *)
(***************************************************************************)
\* The places of a character in a string.
Places(str, char) == {i \in 1..Len(str) : SubSeq(str, i, i) = char}

FirstPlace(str, char) == CHOOSE i \in Places(str, char) : \A j \in Places(str, char) : i <= j

\* The text before and the text after the first such character.
Before(str, char) ==
    IF Places(str, char) = {} THEN str ELSE SubSeq(str, 1, FirstPlace(str, char) - 1)

After(str, char) ==
    IF Places(str, char) = {} THEN "" ELSE SubSeq(str, FirstPlace(str, char) + 1, Len(str))

RECURSIVE Pieces(_, _)
Pieces(str, char) ==
    IF Places(str, char) = {} THEN <<str>>
    ELSE <<Before(str, char)>> \o Pieces(After(str, char), char)

\* The parameters of a URL, in order, as names with values.
QueryParameters(url) ==
    LET pieces == Pieces(After(url, "?"), "&")
    IN [i \in 1..Len(pieces) |->
          [name |-> Before(pieces[i], "="), value |-> After(pieces[i], "=")]]

\* The values a URL gives for a name, in order.
ValuesOf(url, name) ==
    LET named == SelectSeq(QueryParameters(url), LAMBDA p : p.name = name)
    IN [i \in 1..Len(named) |-> named[i].value]

\* C29: the query of every URL handed to the transport has the parameters
\* function, symbol and apikey exactly once each, apikey with the client's
\* key and symbol with the caller's symbol, also when the caller's string
\* holds '&' or '='.
C29_QueryParametersOnce ==
    \A i \in 1..Len(sent) :
        /\ Len(ValuesOf(sent[i], "function")) = 1
        /\ ValuesOf(sent[i], "apikey") = <<client.api_key.v>>
        /\ ValuesOf(sent[i], "symbol") = <<request.v["params"].v["symbol"].v>>

====
